---- MODULE Spec2Model ----
(***************************************************************************)
(* Model of the per-request configuration / credential resolution layer of *)
(* mcp-grafana: the context carrier (GrafanaConfig attached to a           *)
(* context.Context), the environment and header readers, the three         *)
(* composed context functions, the TLS material resolver and the           *)
(* auth-injecting request decorators of the tool clients.                  *)
(*                                                                         *)
(* Strings that the code manipulates (URLs) are sequences of tokens, so    *)
(* that strings.TrimRight, fmt.Sprintf and url.Parse are computed and not  *)
(* assumed.  Opaque strings (API keys, tokens, file names) are atoms with  *)
(* "" as the empty string.                                                 *)
(***************************************************************************)
EXTENDS Integers, Sequences, FiniteSets, TLC

VARIABLES
    env,        \* process environment: [url, key] (GRAFANA_URL, GRAFANA_API_KEY)
    base,       \* GrafanaConfig handed to Composed*ContextFunc by run()
    transport,  \* request -> "stdio" | "sse" | "streamable-http"
    hdr,        \* request -> [url, key]: X-Grafana-URL / X-Grafana-API-Key
    ctx,        \* request -> the context.Context the composer is building
    pc,         \* request -> position inside the composed context function
    handles,    \* contexts held by callers of WithGrafanaConfig & co.
    last,       \* the last library call made: [op, ...arguments..., results]
    sent        \* the upstream requests of the last tool call, in order

vars == <<env, base, transport, hdr, ctx, pc, handles, last, sent>>

----------------------------------------------------------------------------
(* Bounds of the model *)

\* Longest run of trailing "/" appended to a URL value.
MaxSlashes == 2

\* Number of contexts a caller derives in the context-carrier specification.
MaxHandles == 3

----------------------------------------------------------------------------
(* Strings *)

Slash == "/"

\* A token that makes url.Parse fail wherever it stands (an invalid escape).
BadEscape == "%zz"

SchemeHostTokens == {"http://a", "http://b", "http://localhost:3000"}

HostOf(tok) ==
    CASE tok = "http://a" -> "a"
      [] tok = "http://b" -> "b"
      [] tok = "http://localhost:3000" -> "localhost:3000"

\* strings.TrimSuffix(s, "/"): one trailing slash removed at most.
TrimSuffix(s) ==
    IF s # <<>> /\ s[Len(s)] = Slash
    THEN SubSeq(s, 1, Len(s) - 1)
    ELSE s

RECURSIVE TrimRight(_)
\* strings.TrimRight(s, "/")
TrimRight(s) ==
    IF s # <<>> /\ s[Len(s)] = Slash
    THEN TrimRight(SubSeq(s, 1, Len(s) - 1))
    ELSE s

RECURSIVE Slashes(_)
Slashes(k) == IF k = 0 THEN <<>> ELSE <<Slash>> \o Slashes(k - 1)

\* URL values without trailing slashes: unset, a host, a host with a
\* sub-path, and a value url.Parse rejects.
URLBodies ==
    { <<>>,
      <<"http://a">>,
      <<"http://b", Slash, "grafana">>,
      <<BadEscape>> }

URLValues == { b \o Slashes(k) : b \in URLBodies, k \in 0..MaxSlashes }

KeyValues == {"", "key1", "key2"}

\* url.Parse: fails on an invalid escape; otherwise splits scheme://host
\* from the path.
ParseFails(s) == \E i \in 1..Len(s) : s[i] = BadEscape

ParseURL(s) ==
    IF s # <<>> /\ s[1] \in SchemeHostTokens
    THEN [Scheme |-> "http", Host |-> HostOf(s[1]), Path |-> Tail(s)]
    ELSE [Scheme |-> "", Host |-> "", Path |-> s]

defaultGrafanaURL == <<"http://localhost:3000">>

----------------------------------------------------------------------------
(* GrafanaConfig and the context carrier *)

\* A nil *TLSConfig.
NoTLS ==
    [present |-> FALSE, CertFile |-> "", KeyFile |-> "", CAFile |-> "",
     SkipVerify |-> FALSE]

ZeroConfig ==
    [Debug |-> FALSE, URL |-> <<>>, APIKey |-> "",
     AccessToken |-> "", IDToken |-> "", TLSConfig |-> NoTLS]

\* context.Background()
Background == <<>>

\* context.WithValue(parent, key, val): a new context that points at its
\* parent; the parent is not written.  A context is the chain of its
\* (key, value) entries from the root to itself.
WithValue(parent, key, val) == Append(parent, [key |-> key, val |-> val])

HasValue(c, key) == \E i \in 1..Len(c) : c[i].key = key

\* Lookup that answers with the entry farthest from the context.
ValueOldest(c, key) ==
    c[CHOOSE i \in 1..Len(c) :
        c[i].key = key /\ \A j \in 1..(i - 1) : c[j].key # key].val

\* ctx.Value(key): the nearest entry under key, walking towards the root.
Value(c, key) ==
    c[CHOOSE i \in 1..Len(c) :
        c[i].key = key /\ \A j \in (i + 1)..Len(c) : c[j].key # key].val

WithGrafanaConfig(c, config) == WithValue(c, "grafanaConfigKey", config)

GrafanaConfigFromContext(c) ==
    IF HasValue(c, "grafanaConfigKey")
    THEN Value(c, "grafanaConfigKey")
    ELSE ZeroConfig

\* WithOnBehalfOfAuth that rejects only a pair with both tokens empty.
WithOnBehalfOfAuthLax(c, accessToken, userToken) ==
    IF accessToken = "" /\ userToken = ""
    THEN [nil |-> TRUE, ctx |-> Background,
          err |-> "neither accessToken nor userToken can be empty"]
    ELSE [nil |-> FALSE,
          ctx |-> WithGrafanaConfig(c,
                    [GrafanaConfigFromContext(c) EXCEPT
                        !.AccessToken = accessToken, !.IDToken = userToken]),
          err |-> ""]

\* WithOnBehalfOfAuth: [nil, ctx, err]; the returned context is nil on error.
WithOnBehalfOfAuth(c, accessToken, userToken) ==
    IF accessToken = "" \/ userToken = ""
    THEN [nil |-> TRUE, ctx |-> Background,
          err |-> "neither accessToken nor userToken can be empty"]
    ELSE [nil |-> FALSE,
          ctx |-> WithGrafanaConfig(c,
                    [GrafanaConfigFromContext(c) EXCEPT
                        !.AccessToken = accessToken, !.IDToken = userToken]),
          err |-> ""]

\* WithGrafanaClient / WithIncidentClient: values under keys of their own.
WithGrafanaClient(c, client) == WithValue(c, "grafanaClientKey", client)

WithIncidentClient(c, client) == WithValue(c, "incidentClientKey", client)

----------------------------------------------------------------------------
(* TLS material resolver *)

\* The files on disk: a matching certificate/key pair, a CA bundle, a file
\* that is not PEM, and names that do not exist.
CertFiles == {"", "client.pem", "nonexistent.pem"}
KeyFiles == {"", "client.key", "nonexistent.key"}
CAFiles == {"", "ca.pem", "garbage-ca.pem", "nonexistent-ca.pem"}

TLSConfigs ==
    { [present |-> TRUE, CertFile |-> c, KeyFile |-> k, CAFile |-> a,
       SkipVerify |-> v] :
        c \in CertFiles, k \in KeyFiles, a \in CAFiles, v \in BOOLEAN }

TLSInputs == {NoTLS} \cup TLSConfigs

\* tls.LoadX509KeyPair succeeds on the matching pair only.
LoadX509KeyPairOK(certFile, keyFile) ==
    certFile = "client.pem" /\ keyFile = "client.key"

\* os.ReadFile
ReadFileOK(file) == file \in {"ca.pem", "garbage-ca.pem"}

\* x509.CertPool.AppendCertsFromPEM
AppendCertsFromPEMOK(file) == file = "ca.pem"

\* A nil *tls.Config.
NilTLSClientConfig ==
    [nil |-> TRUE, InsecureSkipVerify |-> FALSE, Certificates |-> <<>>,
     RootCAs |-> ""]

\* CreateTLSConfig that answers a nil receiver with an empty tls.Config.
CreateTLSConfigEmptyForNil(tc) ==
    IF ~tc.present
    THEN [cfg |-> [NilTLSClientConfig EXCEPT !.nil = FALSE], err |-> ""]
    ELSE IF tc.CertFile # "" /\ tc.KeyFile # ""
            /\ ~LoadX509KeyPairOK(tc.CertFile, tc.KeyFile)
    THEN [cfg |-> NilTLSClientConfig, err |-> "failed to load client certificate"]
    ELSE IF tc.CAFile # "" /\ ~ReadFileOK(tc.CAFile)
    THEN [cfg |-> NilTLSClientConfig, err |-> "failed to read CA certificate"]
    ELSE IF tc.CAFile # "" /\ ~AppendCertsFromPEMOK(tc.CAFile)
    THEN [cfg |-> NilTLSClientConfig, err |-> "failed to parse CA certificate"]
    ELSE [cfg |->
            [nil |-> FALSE,
             InsecureSkipVerify |-> tc.SkipVerify,
             Certificates |->
                IF tc.CertFile # "" /\ tc.KeyFile # ""
                THEN <<tc.CertFile>> ELSE <<>>,
             RootCAs |-> tc.CAFile],
          err |-> ""]

\* (*TLSConfig).CreateTLSConfig: [cfg, err]
CreateTLSConfig(tc) ==
    IF ~tc.present
    THEN [cfg |-> NilTLSClientConfig, err |-> ""]
    ELSE IF tc.CertFile # "" /\ tc.KeyFile # ""
            /\ ~LoadX509KeyPairOK(tc.CertFile, tc.KeyFile)
    THEN [cfg |-> NilTLSClientConfig, err |-> "failed to load client certificate"]
    ELSE IF tc.CAFile # "" /\ ~ReadFileOK(tc.CAFile)
    THEN [cfg |-> NilTLSClientConfig, err |-> "failed to read CA certificate"]
    ELSE IF tc.CAFile # "" /\ ~AppendCertsFromPEMOK(tc.CAFile)
    THEN [cfg |-> NilTLSClientConfig, err |-> "failed to parse CA certificate"]
    ELSE [cfg |->
            [nil |-> FALSE,
             InsecureSkipVerify |-> tc.SkipVerify,
             Certificates |->
                IF tc.CertFile # "" /\ tc.KeyFile # ""
                THEN <<tc.CertFile>> ELSE <<>>,
             RootCAs |-> tc.CAFile],
          err |-> ""]

\* http.DefaultTransport: no TLSClientConfig of its own.
DefaultTransport ==
    [nil |-> FALSE, Proxy |-> "ProxyFromEnvironment",
     TLSClientConfig |-> NilTLSClientConfig]

NilTransport ==
    [nil |-> TRUE, Proxy |-> "", TLSClientConfig |-> NilTLSClientConfig]

\* (*TLSConfig).HTTPTransport: [transport, err]; works on a clone.
HTTPTransport(tc, defaultTransport) ==
    IF ~tc.present
    THEN [transport |-> defaultTransport, err |-> ""]
    ELSE LET r == CreateTLSConfig(tc)
         IN  IF r.err # ""
             THEN [transport |-> NilTransport, err |-> r.err]
             ELSE [transport |->
                        [defaultTransport EXCEPT !.TLSClientConfig = r.cfg],
                   err |-> ""]

\* The variables a call of the TLS resolver leaves alone.
IdleComposer ==
    /\ env = [url |-> <<>>, key |-> ""]
    /\ base = ZeroConfig
    /\ transport = <<>>
    /\ hdr = <<>>
    /\ ctx = <<>>
    /\ pc = <<>>

NoCall == [op |-> "none"]
\* No upstream request made yet.
NoRequest == <<>>

InitTLS ==
    /\ IdleComposer
    /\ handles = <<>>
    /\ last = NoCall
    /\ sent = NoRequest

CallCreateTLSConfig ==
    /\ \E tc \in TLSInputs :
          last' = [op |-> "CreateTLSConfig", tc |-> tc,
                   res |-> CreateTLSConfig(tc)]
    /\ UNCHANGED <<env, base, transport, hdr, ctx, pc, handles, sent>>

CallHTTPTransport ==
    /\ \E tc \in TLSInputs :
          last' = [op |-> "HTTPTransport", tc |-> tc,
                   res |-> HTTPTransport(tc, DefaultTransport)]
    /\ UNCHANGED <<env, base, transport, hdr, ctx, pc, handles, sent>>

NextTLS == CallCreateTLSConfig \/ CallHTTPTransport

SpecTLS == InitTLS /\ [][NextTLS]_vars

\* C9: CreateTLSConfig fails whenever exactly one of CertFile and KeyFile
\* is given; it never succeeds without the client certificate.
C9_HalfPairFails ==
    (/\ last.op = "CreateTLSConfig"
     /\ last.tc.present
     /\ (last.tc.CertFile = "") # (last.tc.KeyFile = ""))
    => last.res.err # ""

\* C10: a nil TLSConfig gives a nil tls.Config and no error; a present one
\* gives either an error and no tls.Config (a failed pair load and an
\* unreadable CA file with their messages), or a tls.Config whose
\* InsecureSkipVerify is SkipVerify, with a certificate only if cert and key
\* files were given and a root pool only if a CA file was given.
C10_CreateTLSConfigShape ==
    last.op = "CreateTLSConfig" =>
        LET tc == last.tc
            r == last.res
        IN  /\ ~tc.present => (r.cfg.nil /\ r.err = "")
            /\ tc.present =>
                /\ (r.err # "") # (~r.cfg.nil)
                /\ r.err # "" => r.cfg = NilTLSClientConfig
                /\ (tc.CertFile # "" /\ tc.KeyFile # ""
                      /\ ~LoadX509KeyPairOK(tc.CertFile, tc.KeyFile))
                    => r.err = "failed to load client certificate"
                /\ (/\ ~(tc.CertFile # "" /\ tc.KeyFile # "")
                    /\ tc.CAFile = "nonexistent-ca.pem")
                    => r.err = "failed to read CA certificate"
                /\ r.err = "" =>
                    /\ r.cfg.InsecureSkipVerify = tc.SkipVerify
                    /\ r.cfg.Certificates # <<>>
                        => (tc.CertFile # "" /\ tc.KeyFile # "")
                    /\ r.cfg.RootCAs # "" => tc.CAFile # ""
                    /\ (tc.CertFile = "" /\ tc.KeyFile = "" /\ tc.CAFile = "")
                        => (r.cfg.Certificates = <<>> /\ r.cfg.RootCAs = "")

\* A skip-verify-only config resolved, and a nil one.
C10_Witness ==
    /\ last.op = "CreateTLSConfig"
    /\ last.tc.present /\ last.tc.SkipVerify
    /\ last.tc.CertFile = "" /\ last.tc.KeyFile = "" /\ last.tc.CAFile = ""
    /\ last.res.err = "" /\ last.res.cfg.InsecureSkipVerify

----------------------------------------------------------------------------
(* The context carrier used by callers: WithGrafanaConfig,                 *)
(* GrafanaConfigFromContext, WithOnBehalfOfAuth                            *)

\* Configs a caller attaches; one carries a lone access token, which only
\* a direct WithGrafanaConfig can produce.
CallerConfigs ==
    { [ZeroConfig EXCEPT !.URL = <<"http://a">>, !.APIKey = "key1"],
      [ZeroConfig EXCEPT !.URL = <<"http://b", Slash, "grafana">>,
                         !.Debug = TRUE],
      [ZeroConfig EXCEPT !.AccessToken = "stale-access"] }

TokenValues == {"", "access"}
IDTokenValues == {"", "id"}

\* A handle the caller holds: the context, the handle it was derived from
\* (0: context.Background()), the call that made it, and what the caller
\* knows it attached (cfg, attached).
ParentCtx(p) == IF p = 0 THEN Background ELSE handles[p].c
ParentCfg(p) == IF p = 0 THEN ZeroConfig ELSE handles[p].cfg
ParentAttached(p) == IF p = 0 THEN FALSE ELSE handles[p].attached

InitCtx ==
    /\ IdleComposer
    /\ handles = <<>>
    /\ last = NoCall
    /\ sent = NoRequest

CallWithGrafanaConfig ==
    /\ Len(handles) < MaxHandles
    /\ \E p \in 0..Len(handles), config \in CallerConfigs :
          LET child == WithGrafanaConfig(ParentCtx(p), config)
          IN  /\ handles' = Append(handles,
                    [c |-> child, parent |-> p, by |-> "WithGrafanaConfig",
                     cfg |-> config, attached |-> TRUE])
              /\ last' = [op |-> "WithGrafanaConfig", parent |-> p,
                          config |-> config, res |-> child]
    /\ UNCHANGED <<env, base, transport, hdr, ctx, pc, sent>>

CallWithGrafanaClient ==
    /\ Len(handles) < MaxHandles
    /\ \E p \in 0..Len(handles) :
          LET child == WithGrafanaClient(ParentCtx(p), "client")
          IN  /\ handles' = Append(handles,
                    [c |-> child, parent |-> p, by |-> "WithGrafanaClient",
                     cfg |-> ParentCfg(p), attached |-> ParentAttached(p)])
              /\ last' = [op |-> "WithGrafanaClient", parent |-> p,
                          res |-> child]
    /\ UNCHANGED <<env, base, transport, hdr, ctx, pc, sent>>

CallWithOnBehalfOfAuth ==
    /\ Len(handles) < MaxHandles
    /\ \E p \in 0..Len(handles), at \in TokenValues, id \in IDTokenValues :
          LET r == WithOnBehalfOfAuth(ParentCtx(p), at, id)
          IN  /\ handles' =
                    IF r.nil THEN handles
                    ELSE Append(handles,
                            [c |-> r.ctx, parent |-> p,
                             by |-> "WithOnBehalfOfAuth",
                             cfg |-> [ParentCfg(p) EXCEPT
                                        !.AccessToken = at, !.IDToken = id],
                             attached |-> TRUE])
              /\ last' = [op |-> "WithOnBehalfOfAuth", parent |-> p,
                          accessToken |-> at, userToken |-> id, res |-> r]
    /\ UNCHANGED <<env, base, transport, hdr, ctx, pc, sent>>

NextCtx ==
    \/ CallWithGrafanaConfig
    \/ CallWithGrafanaClient
    \/ CallWithOnBehalfOfAuth

SpecCtx == InitCtx /\ [][NextCtx]_vars

\* C3: GrafanaConfigFromContext on the context WithGrafanaConfig returned
\* gives the attached config; every context, also one that children were
\* derived from, keeps resolving to the nearest config attached on its own
\* chain; a context with no config attached resolves to the zero value.
C3_AttachResolveRoundTrip ==
    /\ last.op = "WithGrafanaConfig"
        => GrafanaConfigFromContext(last.res) = last.config
    /\ \A i \in 1..Len(handles) :
        /\ GrafanaConfigFromContext(handles[i].c) = handles[i].cfg
        /\ ~handles[i].attached
            => GrafanaConfigFromContext(handles[i].c) = ZeroConfig
    /\ GrafanaConfigFromContext(Background) = ZeroConfig

\* A config attached over a different one, with an unrelated value between
\* or not, and a context with only a client attached.
C3_Witness ==
    /\ \E i, j \in 1..Len(handles) :
        /\ handles[j].parent = i
        /\ handles[i].by = "WithGrafanaConfig"
        /\ handles[j].by = "WithGrafanaConfig"
        /\ handles[i].cfg # handles[j].cfg
    /\ \E k \in 1..Len(handles) : ~handles[k].attached

\* C4: WithOnBehalfOfAuth returns an error and a nil context when either
\* token is empty, and otherwise a context whose config carries exactly the
\* two tokens; no config made by it has exactly one token.
C4_OnBehalfOfBothOrError ==
    /\ last.op = "WithOnBehalfOfAuth" =>
        IF last.accessToken = "" \/ last.userToken = ""
        THEN last.res.err # "" /\ last.res.nil
        ELSE /\ last.res.err = "" /\ ~last.res.nil
             /\ GrafanaConfigFromContext(last.res.ctx).AccessToken
                    = last.accessToken
             /\ GrafanaConfigFromContext(last.res.ctx).IDToken
                    = last.userToken
    /\ \A i \in 1..Len(handles) :
        handles[i].by = "WithOnBehalfOfAuth" =>
            LET cfg == GrafanaConfigFromContext(handles[i].c)
            IN  cfg.AccessToken # "" /\ cfg.IDToken # ""

\* The injector replaced a lone stale access token by a full pair, after
\* having refused a half pair.
C4_Witness ==
    /\ last.op = "WithOnBehalfOfAuth"
    /\ last.res.err # ""
    /\ (last.accessToken = "") # (last.userToken = "")
    /\ \E i \in 1..Len(handles) :
        /\ handles[i].by = "WithOnBehalfOfAuth"
        /\ ParentCfg(handles[i].parent).AccessToken = "stale-access"

----------------------------------------------------------------------------
(* Credential source readers and the context functions *)

\* An environment reader that keeps what the first finished invocation of
\* the composed function resolved, and reads the environment only before.
urlAndAPIKeyFromEnvCached ==
    IF \E r \in DOMAIN pc : pc[r] = "done"
    THEN LET first == CHOOSE r \in DOMAIN pc : pc[r] = "done"
             cfg == GrafanaConfigFromContext(ctx[first])
         IN  [url |-> cfg.URL, key |-> cfg.APIKey]
    ELSE [url |-> TrimRight(env.url), key |-> env.key]

\* urlAndAPIKeyFromEnv: os.Getenv of both variables, the URL trimmed.  An
\* unset variable reads as "".
urlAndAPIKeyFromEnv == [url |-> TrimRight(env.url), key |-> env.key]

\* A header reader that answers from the first request's headers, as a
\* process-wide slot filled by whichever request came first would.
urlAndAPIKeyFromHeadersShared(req) ==
    [url |-> TrimRight(hdr["r1"].url), key |-> hdr["r1"].key]

\* urlAndAPIKeyFromHeaders: req.Header.Get of both headers, the URL trimmed.
urlAndAPIKeyFromHeaders(req) == [url |-> TrimRight(req.url), key |-> req.key]

\* What a context function returns: the context, or a panic with its
\* message (panicked # "").
Returned(c) == [panicked |-> "", ctx |-> c]
Panicked(msg) == [panicked |-> msg, ctx |-> Background]

\* ExtractGrafanaInfoFromEnv that builds the config anew instead of taking
\* the one the context carries.
ExtractGrafanaInfoFromEnvFresh(c) ==
    LET e == urlAndAPIKeyFromEnv
        u == IF e.url = <<>> THEN defaultGrafanaURL ELSE e.url
    IN  IF ParseFails(u)
        THEN Panicked("invalid Grafana URL")
        ELSE Returned(WithGrafanaConfig(c,
                [ZeroConfig EXCEPT !.URL = u, !.APIKey = e.key]))

\* ExtractGrafanaInfoFromEnv
ExtractGrafanaInfoFromEnv(c) ==
    LET e == urlAndAPIKeyFromEnv
        u == IF e.url = <<>> THEN defaultGrafanaURL ELSE e.url
    IN  IF ParseFails(u)
        THEN Panicked("invalid Grafana URL")
        ELSE Returned(WithGrafanaConfig(c,
                [GrafanaConfigFromContext(c) EXCEPT
                    !.URL = u, !.APIKey = e.key]))

\* ExtractGrafanaInfoFromHeaders choosing URL and key as one pair: both from
\* the headers when the header URL is there, else both from the environment.
ExtractGrafanaInfoFromHeadersPairwise(c, req) ==
    LET h == urlAndAPIKeyFromHeaders(req)
        e == urlAndAPIKeyFromEnv
        u == IF h.url # <<>> THEN h.url
             ELSE IF e.url # <<>> THEN e.url ELSE defaultGrafanaURL
        apiKey == IF h.url # <<>> THEN h.key ELSE e.key
    IN  Returned(WithGrafanaConfig(c,
            [GrafanaConfigFromContext(c) EXCEPT
                !.URL = u, !.APIKey = apiKey]))

\* ExtractGrafanaInfoFromHeaders
ExtractGrafanaInfoFromHeaders(c, req) ==
    LET h == urlAndAPIKeyFromHeaders(req)
        e == urlAndAPIKeyFromEnv
        u == IF h.url # <<>> THEN h.url
             ELSE IF e.url # <<>> THEN e.url ELSE defaultGrafanaURL
        apiKey == IF h.key # "" THEN h.key ELSE e.key
    IN  Returned(WithGrafanaConfig(c,
            [GrafanaConfigFromContext(c) EXCEPT
                !.URL = u, !.APIKey = apiKey]))

\* A makeBasePath that joins without trimming.
makeBasePathUntrimmed(path) == path \o <<Slash, "api">>

\* makeBasePath: strings.Join([TrimRight(path, "/"), "api"], "/")
makeBasePath(path) == TrimRight(path) \o <<Slash, "api">>

\* client.DefaultTransportConfig().Schemes of the OpenAPI client.
DefaultSchemes == <<"http", "https">>

\* NewGrafanaClient that answers an unparseable URL with the default one.
NewGrafanaClientDefaulting(c, grafanaURL, apiKey) ==
    LET u == IF grafanaURL = <<>> \/ ParseFails(grafanaURL)
             THEN defaultGrafanaURL ELSE grafanaURL
        parsedURL == ParseURL(u)
        config == GrafanaConfigFromContext(c)
        tls == CreateTLSConfig(config.TLSConfig)
    IN  IF config.TLSConfig.present /\ tls.err # ""
        THEN [panicked |-> "failed to create TLS config",
              client |-> [nil |-> TRUE]]
        ELSE [panicked |-> "",
              client |->
                [nil |-> FALSE,
                 Host |-> parsedURL.Host,
                 BasePath |-> makeBasePath(parsedURL.Path),
                 Schemes |-> IF parsedURL.Scheme = "http"
                             THEN <<"http">> ELSE DefaultSchemes,
                 APIKey |-> apiKey,
                 Debug |-> config.Debug,
                 TLSConfig |-> tls.cfg]]

\* NewGrafanaClient: the client, or a panic on an unparseable URL or on a
\* TLS config that cannot be created.
NewGrafanaClient(c, grafanaURL, apiKey) ==
    LET u == IF grafanaURL = <<>> THEN defaultGrafanaURL ELSE grafanaURL
        parsedURL == ParseURL(u)
        config == GrafanaConfigFromContext(c)
        tls == CreateTLSConfig(config.TLSConfig)
    IN  IF ParseFails(u)
        THEN [panicked |-> "invalid Grafana URL", client |-> [nil |-> TRUE]]
        ELSE IF config.TLSConfig.present /\ tls.err # ""
        THEN [panicked |-> "failed to create TLS config",
              client |-> [nil |-> TRUE]]
        ELSE [panicked |-> "",
              client |->
                [nil |-> FALSE,
                 Host |-> parsedURL.Host,
                 BasePath |-> makeBasePath(parsedURL.Path),
                 Schemes |-> IF parsedURL.Scheme = "http"
                             THEN <<"http">> ELSE DefaultSchemes,
                 APIKey |-> apiKey,
                 Debug |-> config.Debug,
                 TLSConfig |-> tls.cfg]]

\* ExtractGrafanaClientFromEnv: os.LookupEnv of the URL, not trimmed.  A
\* variable set to "" and an unset one both end at the default URL, the
\* first inside NewGrafanaClient.
ExtractGrafanaClientFromEnv(c) ==
    LET r == NewGrafanaClient(c, env.url, env.key)
    IN  IF r.panicked # ""
        THEN Panicked(r.panicked)
        ELSE Returned(WithValue(c, "grafanaClientKey", r.client))

\* ExtractGrafanaClientFromHeaders
ExtractGrafanaClientFromHeaders(c, req) ==
    LET h == urlAndAPIKeyFromHeaders(req)
        e == urlAndAPIKeyFromEnv
        u == IF h.url # <<>> THEN h.url
             ELSE IF e.url # <<>> THEN e.url ELSE defaultGrafanaURL
        apiKey == IF h.key # "" THEN h.key ELSE e.key
        r == NewGrafanaClient(c, u, apiKey)
    IN  IF r.panicked # ""
        THEN Panicked(r.panicked)
        ELSE Returned(WithGrafanaClient(c, r.client))

\* GrafanaClientFromContext
GrafanaClientFromContext(c) ==
    IF HasValue(c, "grafanaClientKey")
    THEN Value(c, "grafanaClientKey")
    ELSE [nil |-> TRUE]

\* fmt.Sprintf("%s/api/plugins/grafana-irm-app/resources/api/v1/", url)
IncidentURL(grafanaURL) ==
    grafanaURL \o <<"/api/plugins/grafana-irm-app/resources/api/v1/">>

\* incident.NewClient and the custom transport: a transport that cannot be
\* created is logged and the client keeps its default transport.
IncidentClient(c, incidentURL, apiKey) ==
    LET tlsConfig == GrafanaConfigFromContext(c).TLSConfig
        t == HTTPTransport(tlsConfig, DefaultTransport)
    IN  [nil |-> FALSE,
         RemoteHost |-> incidentURL,
         APIKey |-> apiKey,
         Transport |-> IF tlsConfig.present /\ t.err = ""
                       THEN t.transport ELSE DefaultTransport]

\* ExtractIncidentClientFromEnv
ExtractIncidentClientFromEnv(c) ==
    LET e == urlAndAPIKeyFromEnv
        grafanaURL == IF e.url = <<>> THEN defaultGrafanaURL ELSE e.url
        incidentURL == IncidentURL(grafanaURL)
    IN  IF ParseFails(incidentURL)
        THEN Panicked("invalid incident URL")
        ELSE Returned(WithValue(c, "incidentClientKey",
                        IncidentClient(c, incidentURL, e.key)))

\* ExtractIncidentClientFromHeaders
ExtractIncidentClientFromHeaders(c, req) ==
    LET h == urlAndAPIKeyFromHeaders(req)
        e == urlAndAPIKeyFromEnv
        grafanaURL == IF h.url # <<>> THEN h.url
                      ELSE IF e.url # <<>> THEN e.url ELSE defaultGrafanaURL
        apiKey == IF h.key # "" THEN h.key ELSE e.key
    IN  Returned(WithValue(c, "incidentClientKey",
                    IncidentClient(c, IncidentURL(grafanaURL), apiKey)))

\* IncidentClientFromContext
IncidentClientFromContext(c) ==
    IF HasValue(c, "incidentClientKey")
    THEN Value(c, "incidentClientKey")
    ELSE [nil |-> TRUE]

----------------------------------------------------------------------------
(* The composed context functions: ComposedStdioContextFunc,               *)
(* ComposedSSEContextFunc, ComposedHTTPContextFunc                         *)

Requests == {"r1", "r2"}

HeaderTransports == {"sse", "streamable-http"}
Transports == {"stdio"} \cup HeaderTransports

NoHeaders == [url |-> <<>>, key |-> ""]

HeaderValues == [url : URLValues, key : KeyValues]

\* The GrafanaConfig handed to the Composed*ContextFunc: nothing set, debug
\* with skip-verify, a client certificate that does not exist (the three
\* run() builds from the command line), and a caller's config that names a
\* URL and an API key of its own.
BaseConfigs ==
    { ZeroConfig,
      [ZeroConfig EXCEPT !.Debug = TRUE,
                         !.TLSConfig = [NoTLS EXCEPT !.present = TRUE,
                                                     !.SkipVerify = TRUE]],
      [ZeroConfig EXCEPT !.TLSConfig =
            [NoTLS EXCEPT !.present = TRUE,
                          !.CertFile = "nonexistent.pem",
                          !.KeyFile = "nonexistent.key"]],
      [ZeroConfig EXCEPT !.URL = <<"http://b">>, !.APIKey = "key1"] }

\* One request or session at a time, over every header and environment value.
Init ==
    /\ env \in [url : URLValues, key : KeyValues]
    /\ base \in BaseConfigs
    /\ transport = [r \in Requests |-> "none"]
    /\ hdr = [r \in Requests |-> NoHeaders]
    /\ ctx = [r \in Requests |-> Background]
    /\ pc = [r \in Requests |-> IF r = "r1" THEN "idle" ELSE "off"]
    /\ handles = <<>>
    /\ last = NoCall
    /\ sent = NoRequest

\* The server calls the composed function: for a stdio session without a
\* request, for SSE and streamable HTTP with the request's headers.
Arrive(r) ==
    /\ pc[r] = "idle"
    /\ \E t \in Transports :
        \E h \in IF t = "stdio" THEN {NoHeaders} ELSE HeaderValues :
            /\ transport' = [transport EXCEPT ![r] = t]
            /\ hdr' = [hdr EXCEPT ![r] = h]
    /\ pc' = [pc EXCEPT ![r] = "WithGrafanaConfig"]
    /\ UNCHANGED <<env, base, ctx, handles, last, sent>>

\* ComposeStdioContextFuncs / ComposeSSEContextFuncs /
\* ComposeHTTPContextFuncs: ctx = f(ctx) for each function in turn; a panic
\* unwinds the composed function, which then returns no context.
Advance(r, res, next) ==
    /\ IF res.panicked # ""
       THEN /\ pc' = [pc EXCEPT ![r] = "panic"]
            /\ ctx' = ctx
       ELSE /\ pc' = [pc EXCEPT ![r] = next]
            /\ ctx' = [ctx EXCEPT ![r] = res.ctx]
    /\ UNCHANGED <<env, base, transport, hdr, handles, last, sent>>

\* The first composed function: WithGrafanaConfig(ctx, config).
AttachBaseConfig(r) ==
    /\ pc[r] = "WithGrafanaConfig"
    /\ Advance(r, Returned(WithGrafanaConfig(ctx[r], base)),
               "ExtractGrafanaInfo")

InfoFromEnv(r) ==
    /\ pc[r] = "ExtractGrafanaInfo"
    /\ transport[r] = "stdio"
    /\ Advance(r, ExtractGrafanaInfoFromEnv(ctx[r]), "ExtractGrafanaClient")

InfoFromHeaders(r) ==
    /\ pc[r] = "ExtractGrafanaInfo"
    /\ transport[r] \in HeaderTransports
    /\ Advance(r, ExtractGrafanaInfoFromHeaders(ctx[r], hdr[r]),
               "ExtractGrafanaClient")

ClientFromEnv(r) ==
    /\ pc[r] = "ExtractGrafanaClient"
    /\ transport[r] = "stdio"
    /\ Advance(r, ExtractGrafanaClientFromEnv(ctx[r]),
               "ExtractIncidentClient")

ClientFromHeaders(r) ==
    /\ pc[r] = "ExtractGrafanaClient"
    /\ transport[r] \in HeaderTransports
    /\ Advance(r, ExtractGrafanaClientFromHeaders(ctx[r], hdr[r]),
               "ExtractIncidentClient")

IncidentFromEnv(r) ==
    /\ pc[r] = "ExtractIncidentClient"
    /\ transport[r] = "stdio"
    /\ Advance(r, ExtractIncidentClientFromEnv(ctx[r]), "done")

IncidentFromHeaders(r) ==
    /\ pc[r] = "ExtractIncidentClient"
    /\ transport[r] \in HeaderTransports
    /\ Advance(r, ExtractIncidentClientFromHeaders(ctx[r], hdr[r]), "done")

Next ==
    \E r \in Requests :
        \/ Arrive(r)
        \/ AttachBaseConfig(r)
        \/ InfoFromEnv(r)
        \/ InfoFromHeaders(r)
        \/ ClientFromEnv(r)
        \/ ClientFromHeaders(r)
        \/ IncidentFromEnv(r)
        \/ IncidentFromHeaders(r)

Spec == Init /\ [][Next]_vars

\* ExtractGrafanaInfoFromHeaders has run for request r.
InfoFromHeadersRan(r) ==
    /\ transport[r] \in HeaderTransports
    /\ pc[r] \in {"ExtractGrafanaClient", "ExtractIncidentClient", "done",
                  "panic"}

\* C1: after ExtractGrafanaInfoFromHeaders the config's URL is the header
\* URL if the header reader gives one, else the environment URL if the
\* environment reader gives one, else http://localhost:3000, and its APIKey
\* is the header key if non-empty, else the environment key; each field is
\* chosen on its own.
C1_HeaderEnvPrecedence ==
    \A r \in Requests :
        InfoFromHeadersRan(r) =>
            LET cfg == GrafanaConfigFromContext(ctx[r])
                hURL == TrimRight(hdr[r].url)
                eURL == TrimRight(env.url)
            IN  /\ cfg.URL = IF hURL # <<>> THEN hURL
                             ELSE IF eURL # <<>> THEN eURL
                             ELSE <<"http://localhost:3000">>
                /\ cfg.APIKey = IF hdr[r].key # "" THEN hdr[r].key
                                ELSE env.key

\* A request with only a URL header, an environment with only an API key:
\* the composed config has the header's URL and the environment's key.
C1_Witness ==
    /\ pc["r1"] = "done"
    /\ transport["r1"] = "sse"
    /\ hdr["r1"] = [url |-> <<"http://a">>, key |-> ""]
    /\ env = [url |-> <<>>, key |-> "key2"]
    /\ GrafanaConfigFromContext(ctx["r1"]).URL = <<"http://a">>
    /\ GrafanaConfigFromContext(ctx["r1"]).APIKey = "key2"

\* The base URL supplied to request r's composer: the environment's for
\* stdio, the header's before the environment's otherwise ("": none).
SuppliedURL(r) ==
    IF transport[r] = "stdio"
    THEN TrimRight(env.url)
    ELSE IF TrimRight(hdr[r].url) # <<>>
         THEN TrimRight(hdr[r].url)
         ELSE TrimRight(env.url)

\* C7: in each composer a supplied base URL that url.Parse rejects aborts
\* the composed function: it never gets past the construction of the
\* Grafana client, so no context is returned that carries the unparseable
\* URL, and none that carries another URL than the supplied one.
C7_MalformedURLAborts ==
    \A r \in Requests :
        /\ ParseFails(SuppliedURL(r))
            => pc[r] \notin {"ExtractIncidentClient", "done"}
        /\ pc[r] = "done" =>
            /\ ~ParseFails(GrafanaConfigFromContext(ctx[r]).URL)
            /\ SuppliedURL(r) # <<>>
                => GrafanaConfigFromContext(ctx[r]).URL = SuppliedURL(r)

\* A streamable-HTTP request whose X-Grafana-URL does not parse, under a
\* base config without TLS settings: the composed function has panicked.
C7_Witness ==
    /\ pc["r1"] = "panic"
    /\ transport["r1"] = "streamable-http"
    /\ hdr["r1"].url = <<BadEscape>>
    /\ ~ParseFails(env.url)
    /\ base = ZeroConfig

\* C8: with an environment and command-line flags that are in order, no
\* value of the X-Grafana-URL / X-Grafana-API-Key headers makes a composed
\* context function panic.
C8_NoPanicFromRequestInput ==
    \A r \in Requests :
        (/\ transport[r] \in HeaderTransports
         /\ ~ParseFails(env.url)
         /\ CreateTLSConfig(base.TLSConfig).err = "")
        => pc[r] # "panic"

\* ExtractGrafanaInfoFromEnv has run for session r.
InfoFromEnvRan(r) ==
    /\ transport[r] = "stdio"
    /\ pc[r] \in {"ExtractGrafanaClient", "ExtractIncidentClient", "done"}

\* C15: in the stdio composer an environment value overlays the base
\* config's URL or API key only if it is non-empty; an empty one leaves a
\* non-empty base value in place.
C15_EnvOverlaysOnlyNonEmpty ==
    \A r \in Requests :
        InfoFromEnvRan(r) =>
            LET cfg == GrafanaConfigFromContext(ctx[r])
                e == urlAndAPIKeyFromEnv
            IN  /\ e.url # <<>> => cfg.URL = e.url
                /\ e.key # "" => cfg.APIKey = e.key
                /\ (e.url = <<>> /\ base.URL # <<>>) => cfg.URL = base.URL
                /\ (e.key = "" /\ base.APIKey # "")
                    => cfg.APIKey = base.APIKey

\* C23: once ExtractGrafanaInfoFromEnv or ExtractGrafanaInfoFromHeaders has
\* run in a composer, the config's URL is not empty and does not end in a
\* slash, whatever the header and the environment hold.
C23_URLNonEmptyNoTrailingSlash ==
    \A r \in Requests :
        (InfoFromEnvRan(r) \/ InfoFromHeadersRan(r)) =>
            LET u == GrafanaConfigFromContext(ctx[r]).URL
            IN  /\ u # <<>>
                /\ u[Len(u)] # Slash

\* A header of slashes only over an environment URL with two trailing
\* slashes, and a session with an environment of slashes only.
C23_Witness ==
    \/ /\ pc["r1"] = "done"
       /\ transport["r1"] = "sse"
       /\ hdr["r1"].url = <<Slash, Slash>>
       /\ env.url = <<"http://a", Slash, Slash>>
       /\ GrafanaConfigFromContext(ctx["r1"]).URL = <<"http://a">>
    \/ /\ pc["r1"] = "done"
       /\ transport["r1"] = "stdio"
       /\ env.url = <<Slash, Slash>>
       /\ GrafanaConfigFromContext(ctx["r1"]).URL = defaultGrafanaURL

\* C25: in a context a composer has returned, the config's URL is the
\* chosen one (the header's before the environment's before the default),
\* the Grafana client's host and base path are those of that URL, and the
\* incident client's remote URL is that URL followed by the incident path.
C25_ArtifactsAgree ==
    \A r \in Requests :
        pc[r] = "done" =>
            LET u == GrafanaConfigFromContext(ctx[r]).URL
                client == GrafanaClientFromContext(ctx[r])
                incident == IncidentClientFromContext(ctx[r])
            IN  /\ u = IF SuppliedURL(r) # <<>> THEN SuppliedURL(r)
                        ELSE defaultGrafanaURL
                /\ client.Host = ParseURL(u).Host
                /\ client.BasePath = makeBasePath(ParseURL(u).Path)
                /\ incident.RemoteHost = IncidentURL(u)

----------------------------------------------------------------------------
(* Concurrent requests on the SSE / streamable-HTTP servers: each request  *)
(* runs the composed function in its own goroutine, step by step, against  *)
(* the one process environment.                                            *)

ConcurrentHeaders ==
    { NoHeaders,
      [url |-> <<"http://a", Slash>>, key |-> "key1"],
      [url |-> <<"http://b", Slash, "grafana">>, key |-> ""],
      [url |-> <<>>, key |-> "key2"],
      [url |-> <<BadEscape>>, key |-> "key1"] }

ConcurrentEnvs ==
    { [url |-> <<>>, key |-> ""],
      [url |-> <<"http://a">>, key |-> "key2"],
      [url |-> <<"http://b", Slash>>, key |-> ""] }

InitConcurrent ==
    /\ env \in ConcurrentEnvs
    /\ base \in {c \in BaseConfigs : CreateTLSConfig(c.TLSConfig).err = ""}
    /\ transport = [r \in Requests |-> "none"]
    /\ hdr = [r \in Requests |-> NoHeaders]
    /\ ctx = [r \in Requests |-> Background]
    /\ pc = [r \in Requests |-> "idle"]
    /\ handles = <<>>
    /\ last = NoCall
    /\ sent = NoRequest

ArriveConcurrent(r) ==
    /\ pc[r] = "idle"
    /\ \E t \in HeaderTransports, h \in ConcurrentHeaders :
            /\ transport' = [transport EXCEPT ![r] = t]
            /\ hdr' = [hdr EXCEPT ![r] = h]
    /\ pc' = [pc EXCEPT ![r] = "WithGrafanaConfig"]
    /\ UNCHANGED <<env, base, ctx, handles, last, sent>>

NextConcurrent ==
    \E r \in Requests :
        \/ ArriveConcurrent(r)
        \/ AttachBaseConfig(r)
        \/ InfoFromHeaders(r)
        \/ ClientFromHeaders(r)
        \/ IncidentFromHeaders(r)

SpecConcurrent == InitConcurrent /\ [][NextConcurrent]_vars

\* What request r's own headers, the environment and the base config give.
OwnURL(r) ==
    IF TrimRight(hdr[r].url) # <<>> THEN TrimRight(hdr[r].url)
    ELSE IF TrimRight(env.url) # <<>> THEN TrimRight(env.url)
    ELSE defaultGrafanaURL

OwnKey(r) == IF hdr[r].key # "" THEN hdr[r].key ELSE env.key

IsolatedContext(r) ==
    /\ InfoFromHeadersRan(r) =>
        GrafanaConfigFromContext(ctx[r])
            = [base EXCEPT !.URL = OwnURL(r), !.APIKey = OwnKey(r)]
    /\ pc[r] \in {"ExtractIncidentClient", "done"} =>
        LET c == GrafanaClientFromContext(ctx[r])
        IN  /\ ~c.nil
            /\ c.Host = ParseURL(OwnURL(r)).Host
            /\ c.BasePath = makeBasePath(ParseURL(OwnURL(r)).Path)
            /\ c.APIKey = OwnKey(r)
            /\ c.Debug = base.Debug
    /\ pc[r] = "done" =>
        LET i == IncidentClientFromContext(ctx[r])
        IN  /\ ~i.nil
            /\ i.RemoteHost = IncidentURL(OwnURL(r))
            /\ i.APIKey = OwnKey(r)

\* C2: whatever the interleaving of the composed functions of concurrent
\* requests, the config and the clients in a request's context are those
\* its own headers, the environment and the base config give, and no step
\* of a composed function writes the environment or the base config.
C2_PerRequestIsolation ==
    /\ [](\A r \in Requests : IsolatedContext(r))
    /\ [][env' = env /\ base' = base]_vars

\* Two requests with different headers both composed, each with its own URL
\* and key.
C2_Witness ==
    /\ pc["r1"] = "done" /\ pc["r2"] = "done"
    /\ hdr["r1"] = [url |-> <<"http://a", Slash>>, key |-> "key1"]
    /\ hdr["r2"] = [url |-> <<"http://b", Slash, "grafana">>, key |-> ""]
    /\ GrafanaConfigFromContext(ctx["r1"]).URL = <<"http://a">>
    /\ GrafanaConfigFromContext(ctx["r2"]).URL
            = <<"http://b", Slash, "grafana">>
    /\ GrafanaClientFromContext(ctx["r2"]).Host = "b"
    /\ GrafanaClientFromContext(ctx["r1"]).APIKey = "key1"

----------------------------------------------------------------------------
(* Tool clients and the credentials of their outgoing requests *)

\* The credential headers of an outgoing request ("" / <<>>: not set).
NoAuthHeader == [Authorization |-> <<>>, XAccessToken |-> "", XGrafanaId |-> ""]

\* A RoundTrip that adds the bearer header to the token pair.
RoundTripBoth(rt, header) ==
    LET withKey == IF rt.apiKey # ""
                   THEN [header EXCEPT !.Authorization = <<"Bearer", rt.apiKey>>]
                   ELSE header
    IN  IF rt.accessToken # "" /\ rt.idToken # ""
        THEN [withKey EXCEPT !.XAccessToken = rt.accessToken,
                             !.XGrafanaId = rt.idToken]
        ELSE withKey

\* authRoundTripper.RoundTrip: the headers it sets on the request.
RoundTrip(rt, header) ==
    IF rt.accessToken # "" /\ rt.idToken # ""
    THEN [header EXCEPT !.XAccessToken = rt.accessToken,
                        !.XGrafanaId = rt.idToken]
    ELSE IF rt.apiKey # ""
    THEN [header EXCEPT !.Authorization = <<"Bearer", rt.apiKey>>]
    ELSE header

\* alertingClient.makeRequest: the credential headers of its request.
alertingMakeRequest(c) ==
    IF c.accessToken # "" /\ c.userToken # ""
    THEN [NoAuthHeader EXCEPT !.XAccessToken = c.accessToken,
                              !.XGrafanaId = c.userToken]
    ELSE IF c.apiKey # ""
    THEN [NoAuthHeader EXCEPT !.Authorization = <<"Bearer", c.apiKey>>]
    ELSE NoAuthHeader

\* GrafanaURLFromContext / GrafanaAPIKeyFromContext /
\* OnBehalfOfAuthFromContext: the URL, the key and the token pair the
\* context carries.
GrafanaURLFromContext(c) ==
    IF HasValue(c, "grafanaConfigKey")
    THEN GrafanaConfigFromContext(c).URL
    ELSE defaultGrafanaURL

GrafanaAPIKeyFromContext(c) == GrafanaConfigFromContext(c).APIKey

OnBehalfOfAuthFromContext(c) ==
    [accessToken |-> GrafanaConfigFromContext(c).AccessToken,
     userToken |-> GrafanaConfigFromContext(c).IDToken]

\* authRoundTripper: the credentials a decorated transport holds.
authRoundTripper(accessToken, idToken, apiKey) ==
    [accessToken |-> accessToken, idToken |-> idToken, apiKey |-> apiKey]

\* A request of the Grafana OpenAPI client: NewGrafanaClient hands it the
\* API key alone, which it sends as a bearer token, over the client's TLS
\* config.
GrafanaAPIRequest(client) ==
    [client |-> "grafana-api",
     rt |-> authRoundTripper("", "", client.APIKey),
     header |-> IF client.APIKey # ""
                THEN [NoAuthHeader EXCEPT
                        !.Authorization = <<"Bearer", client.APIKey>>]
                ELSE NoAuthHeader,
     tls |-> client.TLSConfig]

\* getDatasourceByUID: the lookup through the context's Grafana client.
getDatasourceByUID(c, found) ==
    [err |-> IF found THEN "" ELSE "datasource not found",
     request |-> GrafanaAPIRequest(GrafanaClientFromContext(c))]

\* The path of a datasource proxy under the Grafana URL.
ProxyPath == "api/datasources/proxy/uid"

\* newLokiClient: [err, rt, underlying, requests, baseURL]; the lookup comes
\* first, and no client is returned when it or the transport fails. baseURL
\* is fmt.Sprintf("%s/api/datasources/proxy/uid/%s", TrimRight(cfg.URL), uid).
newLokiClient(c, found) ==
    LET lookup == getDatasourceByUID(c, found)
        cfg == GrafanaConfigFromContext(c)
        t == HTTPTransport(cfg.TLSConfig, DefaultTransport)
    IN  IF lookup.err # ""
        THEN [err |-> lookup.err, rt |-> authRoundTripper("", "", ""),
              underlying |-> NilTransport,
              requests |-> <<lookup.request>>, baseURL |-> <<>>]
        ELSE IF cfg.TLSConfig.present /\ t.err # ""
        THEN [err |-> "failed to create custom transport",
              rt |-> authRoundTripper("", "", ""),
              underlying |-> NilTransport,
              requests |-> <<lookup.request>>, baseURL |-> <<>>]
        ELSE [err |-> "",
              rt |-> authRoundTripper(cfg.AccessToken, cfg.IDToken,
                                      cfg.APIKey),
              underlying |-> t.transport,
              requests |-> <<lookup.request>>,
              baseURL |-> TrimRight(cfg.URL) \o <<Slash, ProxyPath>>]

\* A newPyroscopeClient that builds the client without looking the
\* datasource up.
newPyroscopeClientUnverified(c, found) ==
    LET cfg == GrafanaConfigFromContext(c)
    IN  [err |-> "",
         rt |-> authRoundTripper(cfg.AccessToken, cfg.IDToken, cfg.APIKey),
         underlying |-> DefaultTransport,
         requests |-> <<>>,
         baseURL |-> TrimRight(cfg.URL) \o <<Slash, ProxyPath>>]

\* newPyroscopeClient: [err, rt, underlying, requests, baseURL]; the
\* transport under the authRoundTripper is http.DefaultTransport. baseURL is
\* url.Parse(cfg.URL).JoinPath("api", "datasources", "proxy", "uid", uid),
\* which is a relative path for a URL without a host.
newPyroscopeClient(c, found) ==
    LET cfg == GrafanaConfigFromContext(c)
        lookup == getDatasourceByUID(c, found)
    IN  IF lookup.err # ""
        THEN [err |-> lookup.err, rt |-> authRoundTripper("", "", ""),
              underlying |-> NilTransport,
              requests |-> <<lookup.request>>, baseURL |-> <<>>]
        ELSE IF ParseFails(cfg.URL)
        THEN [err |-> "failed to parse base url",
              rt |-> authRoundTripper("", "", ""),
              underlying |-> NilTransport,
              requests |-> <<lookup.request>>, baseURL |-> <<>>]
        ELSE [err |-> "",
              rt |-> authRoundTripper(cfg.AccessToken, cfg.IDToken,
                                      cfg.APIKey),
              underlying |-> DefaultTransport,
              requests |-> <<lookup.request>>,
              baseURL |-> IF TrimRight(cfg.URL) = <<>>
                          THEN <<ProxyPath>>
                          ELSE TrimRight(cfg.URL) \o <<Slash, ProxyPath>>]

\* newAssertsClient: an authRoundTripper with the API key alone, over
\* http.DefaultTransport.
newAssertsClient(c) ==
    [err |-> "",
     rt |-> authRoundTripper("", "", GrafanaAPIKeyFromContext(c)),
     underlying |-> DefaultTransport]

\* getOnCallURLFromSettings: the settings request carries the API key alone
\* and goes through http.DefaultClient.
getOnCallURLFromSettings(grafanaAPIKey, ok) ==
    [err |-> IF ok THEN "" ELSE "unexpected status code from settings API",
     request |->
        [client |-> "oncall-settings",
         rt |-> authRoundTripper("", "", grafanaAPIKey),
         header |-> IF grafanaAPIKey # ""
                    THEN [NoAuthHeader EXCEPT
                            !.Authorization = <<"Bearer", grafanaAPIKey>>]
                    ELSE NoAuthHeader,
         tls |-> DefaultTransport.TLSClientConfig]]

\* newAlertingClientFromContext: its http.Client has no transport of its
\* own, which is http.DefaultTransport.
newAlertingClientFromContext(c) ==
    [accessToken |-> OnBehalfOfAuthFromContext(c).accessToken,
     userToken |-> OnBehalfOfAuthFromContext(c).userToken,
     apiKey |-> GrafanaAPIKeyFromContext(c)]

\* What a tool call on context c does: [err, requests], the requests in the
\* order they are issued.

\* listLokiLabelNames & co.: newLokiClient, then Client.makeRequest.
listLokiLabelNames(c, found) ==
    LET cl == newLokiClient(c, found)
    IN  [err |-> cl.err,
         requests |->
            IF cl.err # "" THEN cl.requests
            ELSE Append(cl.requests,
                    [client |-> "loki", rt |-> cl.rt,
                     header |-> RoundTrip(cl.rt, NoAuthHeader),
                     tls |-> cl.underlying.TLSClientConfig])]

\* fetchPyroscopeProfile & co.: newPyroscopeClient, then pyroscopeClient.get.
fetchPyroscopeProfile(c, found) ==
    LET cl == newPyroscopeClient(c, found)
    IN  [err |-> cl.err,
         requests |->
            IF cl.err # "" THEN cl.requests
            ELSE Append(cl.requests,
                    [client |-> "pyroscope", rt |-> cl.rt,
                     header |-> RoundTrip(cl.rt, NoAuthHeader),
                     tls |-> cl.underlying.TLSClientConfig])]

\* getAssertions: newAssertsClient, then fetchAssertsData.
getAssertions(c) ==
    LET cl == newAssertsClient(c)
    IN  [err |-> "",
         requests |-> <<[client |-> "asserts", rt |-> cl.rt,
                         header |-> RoundTrip(cl.rt, NoAuthHeader),
                         tls |-> cl.underlying.TLSClientConfig]>>]

\* oncallClientFromContext: the OnCall tools fetch the settings first.
oncallClientFromContext(c, ok) ==
    LET st == getOnCallURLFromSettings(GrafanaAPIKeyFromContext(c), ok)
    IN  [err |-> st.err, requests |-> <<st.request>>]

\* ListAlertRulesParams.validate: its error, "" for none.
ListAlertRulesParamsValidate(p) ==
    IF p.Limit < 0 THEN "invalid limit"
    ELSE IF p.Page < 0 THEN "invalid page"
    ELSE ""

\* The arguments of a call that sets none of them.
NoListArgs == [Limit |-> 0, Page |-> 0]
UIDArgs(uid) == [UID |-> uid]

\* listAlertRules: validate, newAlertingClientFromContext, then GetRules,
\* which returns a nil response with its error. [err, requests, result].
listAlertRules(c, args, upstream) ==
    LET cl == newAlertingClientFromContext(c)
        req == [client |-> "alerting",
                rt |-> authRoundTripper(cl.accessToken, cl.userToken,
                                        cl.apiKey),
                header |-> alertingMakeRequest(cl),
                tls |-> DefaultTransport.TLSClientConfig]
    IN  IF ListAlertRulesParamsValidate(args) # ""
        THEN [err |-> ListAlertRulesParamsValidate(args),
              requests |-> <<>>, result |-> "nil"]
        ELSE IF upstream # "ok"
        THEN [err |-> "failed to get alert rules from Grafana API",
              requests |-> <<req>>, result |-> "nil"]
        ELSE [err |-> "", requests |-> <<req>>, result |-> "value"]

\* getDashboardByUID: a call through the context's Grafana client, whatever
\* the UID; nil with the client's error.
getDashboardByUID(c, args, upstream) ==
    [err |-> IF upstream # "ok" THEN "get dashboard by uid" ELSE "",
     requests |-> <<GrafanaAPIRequest(GrafanaClientFromContext(c))>>,
     result |-> IF upstream # "ok" THEN "nil" ELSE "value"]

\* Resolved configs of a tool call: with and without a static key, an
\* access token, an ID token and a skip-verify override.
ToolConfigs ==
    { [ZeroConfig EXCEPT !.URL = <<"http://a">>, !.APIKey = k,
                         !.AccessToken = a, !.IDToken = i,
                         !.TLSConfig = [NoTLS EXCEPT !.present = v,
                                                     !.SkipVerify = v]] :
        k \in {"", "key1"}, a \in {"", "access"}, i \in {"", "id"},
        v \in BOOLEAN }

\* The context a tool is called with: the config, and the Grafana client
\* the composed function built from the config's URL and key.
ToolContext(cfg) ==
    LET c == WithGrafanaConfig(Background, cfg)
    IN  WithGrafanaClient(c, NewGrafanaClient(c, cfg.URL, cfg.APIKey).client)

InitTools ==
    /\ IdleComposer
    /\ handles = <<>>
    /\ last = NoCall
    /\ sent = NoRequest

\* A tool call leaves the composer's state alone; last is the call and its
\* config, sent the requests it made.
ToolFrame == UNCHANGED <<env, base, transport, hdr, ctx, pc, handles>>

CallLokiTool ==
    \E cfg \in ToolConfigs, found \in BOOLEAN :
        LET call == listLokiLabelNames(ToolContext(cfg), found)
        IN  /\ last' = [op |-> "loki", cfg |-> cfg, err |-> call.err,
                        found |-> found]
            /\ sent' = call.requests
            /\ ToolFrame

CallPyroscopeTool ==
    \E cfg \in ToolConfigs, found \in BOOLEAN :
        LET call == fetchPyroscopeProfile(ToolContext(cfg), found)
        IN  /\ last' = [op |-> "pyroscope", cfg |-> cfg, err |-> call.err,
                        found |-> found]
            /\ sent' = call.requests
            /\ ToolFrame

CallAssertsTool ==
    \E cfg \in ToolConfigs :
        LET call == getAssertions(ToolContext(cfg))
        IN  /\ last' = [op |-> "asserts", cfg |-> cfg, err |-> call.err]
            /\ sent' = call.requests
            /\ ToolFrame

CallOnCallTool ==
    \E cfg \in ToolConfigs, ok \in BOOLEAN :
        LET call == oncallClientFromContext(ToolContext(cfg), ok)
        IN  /\ last' = [op |-> "oncall", cfg |-> cfg, err |-> call.err]
            /\ sent' = call.requests
            /\ ToolFrame

CallAlertingTool ==
    \E cfg \in ToolConfigs :
        LET call == listAlertRules(ToolContext(cfg), NoListArgs, "ok")
        IN  /\ last' = [op |-> "alerting", cfg |-> cfg, err |-> call.err]
            /\ sent' = call.requests
            /\ ToolFrame

CallGrafanaAPITool ==
    \E cfg \in ToolConfigs :
        LET call == getDashboardByUID(ToolContext(cfg), UIDArgs("uid1"), "ok")
        IN  /\ last' = [op |-> "grafana-api", cfg |-> cfg, err |-> call.err]
            /\ sent' = call.requests
            /\ ToolFrame

NextTools ==
    \/ CallLokiTool
    \/ CallPyroscopeTool
    \/ CallAssertsTool
    \/ CallOnCallTool
    \/ CallAlertingTool
    \/ CallGrafanaAPITool

SpecTools == InitTools /\ [][NextTools]_vars

\* C5: a request decorated by authRoundTripper.RoundTrip or built by
\* alertingClient.makeRequest carries one credential scheme: the token pair
\* and no Authorization when both tokens are non-empty, also with an API
\* key; else only Authorization: Bearer <key> when the key is non-empty;
\* else none of the three headers.
C5_OneCredentialScheme ==
    \A n \in 1..Len(sent) :
        sent[n].client \in {"loki", "pyroscope", "asserts", "alerting"} =>
            LET rt == sent[n].rt
                h == sent[n].header
            IN  IF rt.accessToken # "" /\ rt.idToken # ""
                THEN /\ h.XAccessToken = rt.accessToken
                     /\ h.XGrafanaId = rt.idToken
                     /\ h.Authorization = <<>>
                ELSE IF rt.apiKey # ""
                THEN /\ h.Authorization = <<"Bearer", rt.apiKey>>
                     /\ h.XAccessToken = "" /\ h.XGrafanaId = ""
                ELSE h = NoAuthHeader

\* A Loki request decorated with a key and both tokens at hand.
C5_Witness ==
    /\ last.op = "loki" /\ Len(sent) = 2
    /\ sent[2].rt = authRoundTripper("access", "id", "key1")
    /\ sent[2].header.XAccessToken = "access"
    /\ sent[2].header.Authorization = <<>>

\* C6: every request of a client built from a config with a static API key
\* and both tokens carries the token pair and no Authorization header.
C6_TokenPairOnEveryClient ==
    (/\ last.op # "none"
     /\ last.cfg.APIKey # ""
     /\ last.cfg.AccessToken # "" /\ last.cfg.IDToken # "")
    => \A n \in 1..Len(sent) :
        /\ sent[n].header.XAccessToken = last.cfg.AccessToken
        /\ sent[n].header.XGrafanaId = last.cfg.IDToken
        /\ sent[n].header.Authorization = <<>>

\* C16: a Loki or Pyroscope tool call issues the datasource lookup first and
\* the proxied requests after it; when the lookup fails the call returns an
\* error and issues no proxied request.
C16_LookupBeforeProxy ==
    last.op \in {"loki", "pyroscope"} =>
        /\ Len(sent) >= 1
        /\ sent[1].client = "grafana-api"
        /\ \A n \in 2..Len(sent) : sent[n].client = last.op
        /\ ~last.found => (last.err # "" /\ Len(sent) = 1)
        /\ last.err = "" => last.found

\* A Pyroscope tool call for a UID the lookup does not find.
C16_Witness ==
    /\ last.op = "pyroscope"
    /\ ~last.found
    /\ last.err = "datasource not found"
    /\ Len(sent) = 1
    /\ sent[1].client = "grafana-api"

----------------------------------------------------------------------------
(* The incident context functions called on a caller's own context, as the *)
(* tests and library callers do: the caller attaches a config, then calls  *)
(* ExtractIncidentClientFromEnv or ExtractIncidentClientFromHeaders.       *)

\* The configs a caller attaches: every TLS setting, nothing else set.
IncidentConfigs == { [ZeroConfig EXCEPT !.TLSConfig = tc] : tc \in TLSInputs }

InitIncident ==
    /\ env \in ConcurrentEnvs
    /\ base = ZeroConfig
    /\ transport = [r \in Requests |-> "none"]
    /\ hdr = [r \in Requests |-> NoHeaders]
    /\ ctx = [r \in Requests |-> Background]
    /\ pc = [r \in Requests |-> IF r = "r1" THEN "idle" ELSE "off"]
    /\ handles = <<>>
    /\ last = NoCall
    /\ sent = NoRequest

\* The caller builds the context the incident function is handed.
CallerContext(r) ==
    /\ pc[r] = "idle"
    /\ \E t \in {"stdio", "sse"} :
        \E h \in IF t = "stdio" THEN {NoHeaders} ELSE ConcurrentHeaders :
            /\ transport' = [transport EXCEPT ![r] = t]
            /\ hdr' = [hdr EXCEPT ![r] = h]
    /\ \E cfg \in IncidentConfigs :
            ctx' = [ctx EXCEPT ![r] = WithGrafanaConfig(Background, cfg)]
    /\ pc' = [pc EXCEPT ![r] = "ExtractIncidentClient"]
    /\ UNCHANGED <<env, base, handles, last, sent>>

NextIncident ==
    \E r \in Requests :
        \/ CallerContext(r)
        \/ IncidentFromEnv(r)
        \/ IncidentFromHeaders(r)

SpecIncident == InitIncident /\ [][NextIncident]_vars

\* C11: when the TLS settings of the context's config cannot be made into a
\* transport, the incident context function attaches no incident client.
C11_IncidentTLSFailureIsFatal ==
    \A r \in Requests :
        LET tc == GrafanaConfigFromContext(ctx[r]).TLSConfig
        IN  (/\ pc[r] = "done"
             /\ tc.present
             /\ HTTPTransport(tc, DefaultTransport).err # "")
            => IncidentClientFromContext(ctx[r]).nil

----------------------------------------------------------------------------
(* makeBasePath on every URL path *)

\* URL paths: up to MaxPathLen slashes and segments in any order.
MaxPathLen == 4

PathTokens == {Slash, "grafana", "sub"}

RECURSIVE PathsOfLen(_)
PathsOfLen(n) ==
    IF n = 0 THEN {<<>>}
    ELSE { Append(p, t) : p \in PathsOfLen(n - 1), t \in PathTokens }

Paths == UNION { PathsOfLen(n) : n \in 0..MaxPathLen }

InitPath ==
    /\ IdleComposer
    /\ handles = <<>>
    /\ last = NoCall
    /\ sent = NoRequest

\* NewGrafanaClient: cfg.BasePath = makeBasePath(parsedURL.Path)
CallMakeBasePath ==
    /\ \E path \in Paths :
        last' = [op |-> "makeBasePath", path |-> path,
                 res |-> makeBasePath(path)]
    /\ UNCHANGED <<env, base, transport, hdr, ctx, pc, handles, sent>>

NextPath == CallMakeBasePath

SpecPath == InitPath /\ [][NextPath]_vars

\* C12: the base path is the path without its trailing slashes, then one
\* "/" and "api": no slash is doubled at the join, "" and "/" give "/api",
\* "/grafana" and "/grafana/" give "/grafana/api".
C12_OneAPISegment ==
    last.op = "makeBasePath" =>
        LET p == last.path
            r == last.res
            n == Len(r)
        IN  /\ \E k \in 0..Len(p) :
                /\ k > 0 => p[k] # Slash
                /\ \A i \in (k + 1)..Len(p) : p[i] = Slash
                /\ r = SubSeq(p, 1, k) \o <<Slash, "api">>
            /\ n >= 2 /\ r[n] = "api" /\ r[n - 1] = Slash
            /\ n >= 3 => r[n - 2] # Slash
            /\ p \in {<<>>, <<Slash>>} => r = <<Slash, "api">>
            /\ p \in {<<Slash, "grafana">>, <<Slash, "grafana", Slash>>}
                => r = <<Slash, "grafana", Slash, "api">>

\* A sub-path with two trailing slashes.
C12_Witness ==
    /\ last.op = "makeBasePath"
    /\ last.path = <<Slash, "grafana", Slash, Slash>>
    /\ last.res = <<Slash, "grafana", Slash, "api">>

----------------------------------------------------------------------------
(* Sessions: the composed stdio function runs once per session, tools are  *)
(* then called with the session's context, and the process environment may *)
(* change between composer invocations.                                    *)

\* The configs the sessions are started with.
SessionBaseConfigs ==
    { ZeroConfig,
      [ZeroConfig EXCEPT !.Debug = TRUE,
                         !.TLSConfig = [NoTLS EXCEPT !.present = TRUE,
                                                     !.SkipVerify = TRUE]] }

InitSession ==
    /\ env \in ConcurrentEnvs
    /\ base \in SessionBaseConfigs
    /\ transport = [r \in Requests |-> "none"]
    /\ hdr = [r \in Requests |-> NoHeaders]
    /\ ctx = [r \in Requests |-> Background]
    /\ pc = [r \in Requests |-> "idle"]
    /\ handles = <<>>
    /\ last = NoCall
    /\ sent = NoRequest

\* A composed context function is running.
ComposerRunning ==
    \E r \in Requests :
        pc[r] \in {"WithGrafanaConfig", "ExtractGrafanaInfo",
                   "ExtractGrafanaClient", "ExtractIncidentClient"}

\* StdioServer.Listen calls the context function for the session.
SessionStart(r) ==
    /\ pc[r] = "idle"
    /\ ~ComposerRunning
    /\ transport' = [transport EXCEPT ![r] = "stdio"]
    /\ pc' = [pc EXCEPT ![r] = "WithGrafanaConfig"]
    /\ UNCHANGED <<env, base, hdr, ctx, handles, last, sent>>

\* os.Setenv / t.Setenv of GRAFANA_URL and GRAFANA_API_KEY, between two
\* invocations of the composed function.
Setenv ==
    /\ ~ComposerRunning
    /\ \E e \in ConcurrentEnvs : e # env /\ env' = e
    /\ UNCHANGED <<base, transport, hdr, ctx, pc, handles, last, sent>>

\* A tool call of session r leaves the composer's state alone.
SessionFrame == UNCHANGED <<env, base, transport, hdr, ctx, pc, handles>>

SessionLokiTool(r) ==
    /\ pc[r] = "done"
    /\ \E found \in BOOLEAN :
        LET call == listLokiLabelNames(ctx[r], found)
        IN  /\ last' = [op |-> "loki", by |-> r, err |-> call.err,
                        cfg |-> GrafanaConfigFromContext(ctx[r])]
            /\ sent' = call.requests
    /\ SessionFrame

SessionPyroscopeTool(r) ==
    /\ pc[r] = "done"
    /\ \E found \in BOOLEAN :
        LET call == fetchPyroscopeProfile(ctx[r], found)
        IN  /\ last' = [op |-> "pyroscope", by |-> r, err |-> call.err,
                        cfg |-> GrafanaConfigFromContext(ctx[r])]
            /\ sent' = call.requests
    /\ SessionFrame

SessionAssertsTool(r) ==
    /\ pc[r] = "done"
    /\ LET call == getAssertions(ctx[r])
       IN  /\ last' = [op |-> "asserts", by |-> r, err |-> call.err,
                       cfg |-> GrafanaConfigFromContext(ctx[r])]
           /\ sent' = call.requests
    /\ SessionFrame

SessionOnCallTool(r) ==
    /\ pc[r] = "done"
    /\ \E ok \in BOOLEAN :
        LET call == oncallClientFromContext(ctx[r], ok)
        IN  /\ last' = [op |-> "oncall", by |-> r, err |-> call.err,
                        cfg |-> GrafanaConfigFromContext(ctx[r])]
            /\ sent' = call.requests
    /\ SessionFrame

SessionGrafanaAPITool(r) ==
    /\ pc[r] = "done"
    /\ LET call == getDashboardByUID(ctx[r], UIDArgs("uid1"), "ok")
       IN  /\ last' = [op |-> "grafana-api", by |-> r, err |-> call.err,
                       cfg |-> GrafanaConfigFromContext(ctx[r])]
           /\ sent' = call.requests
    /\ SessionFrame

NextSession ==
    \/ Setenv
    \/ \E r \in Requests :
        \/ SessionStart(r)
        \/ AttachBaseConfig(r)
        \/ InfoFromEnv(r)
        \/ ClientFromEnv(r)
        \/ IncidentFromEnv(r)
        \/ SessionLokiTool(r)
        \/ SessionPyroscopeTool(r)
        \/ SessionAssertsTool(r)
        \/ SessionOnCallTool(r)
        \/ SessionGrafanaAPITool(r)

SpecSession == InitSession /\ [][NextSession]_vars

\* C13: in a session composed from a base config with Debug and a
\* skip-verify TLS override, the Grafana client and the incident client of
\* the context, and every request a tool's client sends, use a TLS config
\* with InsecureSkipVerify set.
C13_SkipVerifyOnEveryClient ==
    (base.Debug /\ base.TLSConfig.present /\ base.TLSConfig.SkipVerify) =>
        /\ \A r \in Requests :
            pc[r] = "done" =>
                /\ GrafanaClientFromContext(ctx[r])
                        .TLSConfig.InsecureSkipVerify
                /\ IncidentClientFromContext(ctx[r])
                        .Transport.TLSClientConfig.InsecureSkipVerify
        /\ \A n \in 1..Len(sent) : sent[n].tls.InsecureSkipVerify

\* C14: the environment is read at each invocation of the composed
\* function: the config it resolves has the URL and API key the environment
\* holds at that invocation; a finished context resolves to the same config
\* through every later step, environment changes included, and each tool
\* call of a session observes that config.
C14_EnvReadAtEachInvocation ==
    [][\A r \in Requests :
        LET before == GrafanaConfigFromContext(ctx[r])
            after == GrafanaConfigFromContext(ctx'[r])
        IN  /\ (pc[r] = "ExtractGrafanaInfo"
                    /\ pc'[r] = "ExtractGrafanaClient") =>
                /\ after.URL = IF TrimRight(env.url) = <<>>
                               THEN <<"http://localhost:3000">>
                               ELSE TrimRight(env.url)
                /\ after.APIKey = env.key
            /\ pc[r] = "done" => (pc'[r] = "done" /\ after = before)
            /\ (last' # last /\ last'.by = r) => last'.cfg = before
      ]_vars

\* Two sessions composed before and after the environment changed from
\* http://a to http://b/, and a tool call of the first one afterwards.
C14_Witness ==
    /\ pc["r1"] = "done" /\ pc["r2"] = "done"
    /\ GrafanaConfigFromContext(ctx["r1"]).URL = <<"http://a">>
    /\ GrafanaConfigFromContext(ctx["r2"]).URL = <<"http://b">>
    /\ env.url = <<"http://b", Slash>>
    /\ last.op = "loki"
    /\ last.by = "r1"
    /\ last.cfg.URL = <<"http://a">>

----------------------------------------------------------------------------
(* The tools and their arguments: what a call with given arguments returns *)
(* and which upstream requests it issues before returning.                 *)

DefaultLokiLogLimit == 10
MaxLokiLogLimit == 100

\* ListContactPointsParams.validate: its error, "" for none.
ListContactPointsParamsValidate(p) ==
    IF p.Limit < 0 THEN "invalid limit" ELSE ""

\* GetAlertRuleByUIDParams.validate: its error, "" for none.
GetAlertRuleByUIDParamsValidate(p) ==
    IF p.UID = "" THEN "uid is required" ELSE ""

\* enforceLogLimit without the cap: the default for a limit of zero or
\* less, the requested limit otherwise.
enforceLogLimitUncapped(requestedLimit) ==
    IF requestedLimit <= 0 THEN DefaultLokiLogLimit ELSE requestedLimit

\* enforceLogLimit: the default for a limit of zero or less, the maximum
\* for one above it.
enforceLogLimit(requestedLimit) ==
    IF requestedLimit <= 0 THEN DefaultLokiLogLimit
    ELSE IF requestedLimit > MaxLokiLogLimit THEN MaxLokiLogLimit
    ELSE requestedLimit

\* listContactPoints: validate, then GetContactpoints through the context's
\* Grafana client.
listContactPoints(c, args, upstream) ==
    IF ListContactPointsParamsValidate(args) # ""
    THEN [err |-> ListContactPointsParamsValidate(args),
          requests |-> <<>>, result |-> "nil"]
    ELSE [err |-> IF upstream # "ok" THEN "list contact points" ELSE "",
          requests |-> <<GrafanaAPIRequest(GrafanaClientFromContext(c))>>,
          result |-> IF upstream # "ok" THEN "nil" ELSE "value"]

\* getAlertRuleByUID: validate, then GetAlertRule through the context's
\* Grafana client.
getAlertRuleByUID(c, args, upstream) ==
    IF GetAlertRuleByUIDParamsValidate(args) # ""
    THEN [err |-> GetAlertRuleByUIDParamsValidate(args),
          requests |-> <<>>, result |-> "nil"]
    ELSE [err |-> IF upstream # "ok" THEN "get alert rule by uid" ELSE "",
          requests |-> <<GrafanaAPIRequest(GrafanaClientFromContext(c))>>,
          result |-> IF upstream # "ok" THEN "nil" ELSE "value"]

\* queryLokiLogs: newLokiClient for the datasource UID as given, then
\* fetchLogs with the enforced limit. limit is the limit of the query sent,
\* 0 when none is sent.
queryLokiLogs(c, args, found, upstream) ==
    LET cl == newLokiClient(c, found)
        query == [client |-> "loki", rt |-> cl.rt,
                  header |-> RoundTrip(cl.rt, NoAuthHeader),
                  tls |-> cl.underlying.TLSClientConfig]
    IN  IF cl.err # ""
        THEN [err |-> "creating Loki client", requests |-> cl.requests,
              result |-> "nil", limit |-> 0]
        ELSE [err |-> IF upstream # "ok" THEN "fetching logs" ELSE "",
              requests |-> Append(cl.requests, query),
              result |-> IF upstream # "ok" THEN "nil" ELSE "value",
              limit |-> enforceLogLimit(args.Limit)]

\* A request of the OnCall API client, which NewWithGrafanaURL hands the API
\* key.
oncallRequest(c) ==
    [client |-> "oncall",
     rt |-> authRoundTripper("", "", GrafanaAPIKeyFromContext(c)),
     header |-> [NoAuthHeader EXCEPT
                    !.Authorization = <<GrafanaAPIKeyFromContext(c)>>],
     tls |-> DefaultTransport.TLSClientConfig]

\* An OnCall tool: the service from oncallClientFromContext, then one call
\* of the service; page is the page of the call's options, 0 for none.
oncallServiceCall(c, ok, upstream, page) ==
    LET cl == oncallClientFromContext(c, ok)
    IN  IF cl.err # ""
        THEN [err |-> "getting OnCall client", requests |-> cl.requests,
              result |-> "nil", page |-> 0]
        ELSE [err |-> IF upstream # "ok" THEN "OnCall API" ELSE "",
              requests |-> Append(cl.requests, oncallRequest(c)),
              result |-> IF upstream # "ok" THEN "nil" ELSE "value",
              page |-> page]

\* listOnCallSchedules, listOnCallTeams, listOnCallUsers: a page above zero
\* goes into the list options, any other page is left out of them.
listOnCallSchedules(c, args, ok, upstream) ==
    oncallServiceCall(c, ok, upstream,
                      IF args.Page > 0 THEN args.Page ELSE 0)

listOnCallTeams(c, args, ok, upstream) ==
    oncallServiceCall(c, ok, upstream,
                      IF args.Page > 0 THEN args.Page ELSE 0)

listOnCallUsers(c, args, ok, upstream) ==
    oncallServiceCall(c, ok, upstream,
                      IF args.Page > 0 THEN args.Page ELSE 0)

\* getOnCallShift: GetOnCallShift for the shift ID as given.
getOnCallShift(c, args, ok, upstream) ==
    oncallServiceCall(c, ok, upstream, 0)

\* GetDashboardPanelQueriesTool: result is made as an empty slice first and
\* is what every return hands back, with or without an error. body is the
\* dashboard fetched: "object" with a panels array, "no panels", "no object".
GetDashboardPanelQueriesTool(c, args, upstream, body) ==
    LET dashboard == getDashboardByUID(c, args, upstream)
    IN  [err |-> IF dashboard.err # "" THEN "get dashboard by uid"
                 ELSE IF body = "no object"
                 THEN "dashboard is not a JSON object"
                 ELSE IF body = "no panels"
                 THEN "panels is not a JSON array"
                 ELSE "",
         requests |-> dashboard.requests,
         result |-> IF dashboard.err = "" /\ body = "object"
                    THEN "value" ELSE "empty"]

\* The schema-required string identifiers of each tool's arguments.
RequiredIdentifiers(op) ==
    CASE op = "getDashboardByUID" -> {"UID"}
      [] op = "GetDashboardPanelQueriesTool" -> {"UID"}
      [] op = "getAlertRuleByUID" -> {"UID"}
      [] op = "queryLokiLogs" -> {"DatasourceUID"}
      [] op = "getOnCallShift" -> {"ShiftID"}
      [] OTHER -> {}

\* Argument values: limits and pages below, at and above zero, and beyond
\* the Loki maximum; identifiers empty and not.
Limits == {-1, 0, 1, MaxLokiLogLimit, MaxLokiLogLimit + 1}
Pages == {-1, 0, 1}
Identifiers == {"", "id1"}
Upstreams == {"ok", "error"}
Bodies == {"object", "no panels", "no object"}

ParamTools ==
    {"listAlertRules", "listContactPoints", "queryLokiLogs",
     "listOnCallSchedules", "listOnCallTeams", "listOnCallUsers",
     "getAlertRuleByUID", "getDashboardByUID", "getOnCallShift",
     "GetDashboardPanelQueriesTool"}

\* The contexts the tools are called with: a config with and without a key.
ParamConfigs ==
    { cfg \in ToolConfigs :
        /\ ~cfg.TLSConfig.present
        /\ cfg.AccessToken = ""
        /\ cfg.IDToken = "" }

InitParams ==
    /\ IdleComposer
    /\ handles = <<>>
    /\ last = NoCall
    /\ sent = NoRequest

InvokeListAlertRules ==
    \E cfg \in ParamConfigs, l \in Limits, p \in Pages, up \in Upstreams :
        LET args == [Limit |-> l, Page |-> p]
            call == listAlertRules(ToolContext(cfg), args, up)
        IN  /\ last' = [op |-> "listAlertRules", cfg |-> cfg, args |-> args,
                        err |-> call.err, result |-> call.result]
            /\ sent' = call.requests
            /\ ToolFrame

InvokeListContactPoints ==
    \E cfg \in ParamConfigs, l \in Limits, up \in Upstreams :
        LET args == [Limit |-> l]
            call == listContactPoints(ToolContext(cfg), args, up)
        IN  /\ last' = [op |-> "listContactPoints", cfg |-> cfg,
                        args |-> args,
                        err |-> call.err, result |-> call.result]
            /\ sent' = call.requests
            /\ ToolFrame

InvokeQueryLokiLogs ==
    \E cfg \in ParamConfigs, uid \in Identifiers, l \in Limits,
       found \in BOOLEAN, up \in Upstreams :
        LET args == [DatasourceUID |-> uid, Limit |-> l]
            call == queryLokiLogs(ToolContext(cfg), args, found, up)
        IN  /\ last' = [op |-> "queryLokiLogs", cfg |-> cfg, args |-> args,
                        err |-> call.err, result |-> call.result,
                        limit |-> call.limit]
            /\ sent' = call.requests
            /\ ToolFrame

InvokeListOnCallSchedules ==
    \E cfg \in ParamConfigs, p \in Pages, ok \in BOOLEAN, up \in Upstreams :
        LET args == [TeamID |-> "", ScheduleID |-> "", Page |-> p]
            call == listOnCallSchedules(ToolContext(cfg), args, ok, up)
        IN  /\ last' = [op |-> "listOnCallSchedules", cfg |-> cfg,
                        args |-> args,
                        err |-> call.err, result |-> call.result,
                        page |-> call.page]
            /\ sent' = call.requests
            /\ ToolFrame

InvokeListOnCallTeams ==
    \E cfg \in ParamConfigs, p \in Pages, ok \in BOOLEAN, up \in Upstreams :
        LET args == [Page |-> p]
            call == listOnCallTeams(ToolContext(cfg), args, ok, up)
        IN  /\ last' = [op |-> "listOnCallTeams", cfg |-> cfg, args |-> args,
                        err |-> call.err, result |-> call.result,
                        page |-> call.page]
            /\ sent' = call.requests
            /\ ToolFrame

InvokeListOnCallUsers ==
    \E cfg \in ParamConfigs, p \in Pages, ok \in BOOLEAN, up \in Upstreams :
        LET args == [UserID |-> "", Username |-> "", Page |-> p]
            call == listOnCallUsers(ToolContext(cfg), args, ok, up)
        IN  /\ last' = [op |-> "listOnCallUsers", cfg |-> cfg, args |-> args,
                        err |-> call.err, result |-> call.result,
                        page |-> call.page]
            /\ sent' = call.requests
            /\ ToolFrame

InvokeGetAlertRuleByUID ==
    \E cfg \in ParamConfigs, uid \in Identifiers, up \in Upstreams :
        LET args == UIDArgs(uid)
            call == getAlertRuleByUID(ToolContext(cfg), args, up)
        IN  /\ last' = [op |-> "getAlertRuleByUID", cfg |-> cfg,
                        args |-> args,
                        err |-> call.err, result |-> call.result]
            /\ sent' = call.requests
            /\ ToolFrame

InvokeGetDashboardByUID ==
    \E cfg \in ParamConfigs, uid \in Identifiers, up \in Upstreams :
        LET args == UIDArgs(uid)
            call == getDashboardByUID(ToolContext(cfg), args, up)
        IN  /\ last' = [op |-> "getDashboardByUID", cfg |-> cfg,
                        args |-> args,
                        err |-> call.err, result |-> call.result]
            /\ sent' = call.requests
            /\ ToolFrame

InvokeGetOnCallShift ==
    \E cfg \in ParamConfigs, id \in Identifiers, ok \in BOOLEAN,
       up \in Upstreams :
        LET args == [ShiftID |-> id]
            call == getOnCallShift(ToolContext(cfg), args, ok, up)
        IN  /\ last' = [op |-> "getOnCallShift", cfg |-> cfg, args |-> args,
                        err |-> call.err, result |-> call.result,
                        page |-> call.page]
            /\ sent' = call.requests
            /\ ToolFrame

InvokeGetDashboardPanelQueries ==
    \E cfg \in ParamConfigs, uid \in Identifiers, up \in Upstreams,
       body \in Bodies :
        LET args == UIDArgs(uid)
            call == GetDashboardPanelQueriesTool(ToolContext(cfg), args, up,
                                                 body)
        IN  /\ last' = [op |-> "GetDashboardPanelQueriesTool", cfg |-> cfg,
                        args |-> args,
                        err |-> call.err, result |-> call.result]
            /\ sent' = call.requests
            /\ ToolFrame

NextParams ==
    \/ InvokeListAlertRules
    \/ InvokeListContactPoints
    \/ InvokeQueryLokiLogs
    \/ InvokeListOnCallSchedules
    \/ InvokeListOnCallTeams
    \/ InvokeListOnCallUsers
    \/ InvokeGetAlertRuleByUID
    \/ InvokeGetDashboardByUID
    \/ InvokeGetOnCallShift
    \/ InvokeGetDashboardPanelQueries

SpecParams == InitParams /\ [][NextParams]_vars

\* The call just made was given a limit or a page below zero.
NegativeArgument ==
    \/ "Limit" \in DOMAIN last.args /\ last.args.Limit < 0
    \/ "Page" \in DOMAIN last.args /\ last.args.Page < 0

\* C17: a tool called with a limit or a page below zero returns an error and
\* has issued no upstream request, client-construction lookups included.
C17_NegativeRejectedBeforeUpstream ==
    (last.op \in ParamTools /\ NegativeArgument) =>
        /\ last.err # ""
        /\ sent = <<>>

\* C18: a tool called with an empty value for a schema-required string
\* identifier returns an error and has issued no upstream request.
C18_EmptyIdentifierRejected ==
    last.op \in ParamTools =>
        \A f \in RequiredIdentifiers(last.op) :
            last.args[f] = "" => (last.err # "" /\ sent = <<>>)

\* C19: a tool call returns a result and no error, or an error and a nil
\* result.
C19_AllOrNothing ==
    last.op \in ParamTools =>
        \/ last.err = ""
        \/ last.result = "nil"

\* C28: the limit queryLokiLogs hands to fetchLogs, which sends it to Loki,
\* lies between 1 and 100: it is 10 for a requested limit that is absent
\* (zero) or negative, 100 for one above 100, and the requested limit
\* otherwise.
C28_LimitWithinBounds ==
    (last.op = "queryLokiLogs" /\ last.err # "creating Loki client") =>
        /\ last.limit \in 1..100
        /\ last.limit = IF last.args.Limit <= 0 THEN 10
                        ELSE IF last.args.Limit > 100 THEN 100
                        ELSE last.args.Limit

\* A query that asked for one line more than the maximum went out with the
\* maximum.
C28_Witness ==
    /\ last.op = "queryLokiLogs"
    /\ last.err = ""
    /\ last.args.Limit = MaxLokiLogLimit + 1
    /\ last.limit = MaxLokiLogLimit
    /\ sent # <<>>

----------------------------------------------------------------------------
(* The server's tool categories: newServer registers them from the         *)
(* --enabled-tools list and the --disable-<category> flags. A flag string   *)
(* is a sequence of tokens: category names, "," and " ".                    *)

Comma == ","

\* The categories in the order addTools goes through them.
Categories ==
    <<"search", "datasource", "incident", "prometheus", "loki", "alerting",
      "dashboard", "oncall", "asserts", "sift", "admin", "pyroscope">>

CategoryNames == { Categories[n] : n \in 1..Len(Categories) }

\* The default of --enabled-tools: every category, comma separated.
DefaultEnabledTools ==
    [n \in 1..(2 * Len(Categories) - 1) |->
        IF n % 2 = 1 THEN Categories[(n + 1) \div 2] ELSE Comma]

\* strings.Split(s, ","): the pieces between the commas, one empty piece
\* for an empty string.
RECURSIVE Split(_)
Split(s) ==
    IF \A n \in 1..Len(s) : s[n] # Comma
    THEN <<s>>
    ELSE LET i == CHOOSE n \in 1..Len(s) :
                    /\ s[n] = Comma
                    /\ \A k \in 1..(n - 1) : s[k] # Comma
         IN  <<SubSeq(s, 1, i - 1)>> \o Split(SubSeq(s, i + 1, Len(s)))

\* slices.Contains(enabledTools, category).
Contains(enabledTools, category) ==
    \E n \in 1..Len(enabledTools) : enabledTools[n] = <<category>>

\* A maybeAddTools that does not look at the disable flag.
maybeAddToolsIgnoringDisable(s, enabledTools, disable, category) ==
    IF ~Contains(enabledTools, category) THEN s
    ELSE Append(s, category)

\* maybeAddTools: s is the server, the sequence of categories whose
\* registration function has been called on it.
maybeAddTools(s, enabledTools, disable, category) ==
    IF ~Contains(enabledTools, category) THEN s
    ELSE IF disable THEN s
    ELSE Append(s, category)

\* disabledTools.addTools: one maybeAddTools per category, in order; n is
\* the number of categories gone through.
RECURSIVE addToolsUpTo(_, _, _)
addToolsUpTo(dt, s, n) ==
    IF n = 0 THEN s
    ELSE maybeAddTools(addToolsUpTo(dt, s, n - 1), Split(dt.enabledTools),
                       Categories[n] \in dt.disabled, Categories[n])

addTools(dt, s) == addToolsUpTo(dt, s, Len(Categories))

\* newServer: a new server with the tools of dt added.
newServer(dt) == addTools(dt, <<>>)

MaxFlagLen == 3

FlagTokens == {"search", "loki", Comma, " "}

RECURSIVE FlagsOfLen(_)
FlagsOfLen(n) ==
    IF n = 0 THEN {<<>>}
    ELSE { Append(f, t) : f \in FlagsOfLen(n - 1), t \in FlagTokens }

\* --enabled-tools values: the default and short lists, well formed or not.
EnabledToolsValues ==
    {DefaultEnabledTools} \cup UNION { FlagsOfLen(n) : n \in 0..MaxFlagLen }

\* The --disable-<category> flags set, as the set of their categories.
DisableFlags == SUBSET {"search", "loki", "admin"}

\* main after flag.Parse: last holds the flags.
InitRegister ==
    /\ IdleComposer
    /\ handles = <<>>
    /\ sent = NoRequest
    /\ \E e \in EnabledToolsValues, d \in DisableFlags :
        last = [op |-> "flags",
                dt |-> [enabledTools |-> e, disabled |-> d]]

\* run: s := newServer(dt); last.server is the server.
NewServer ==
    /\ last.op = "flags"
    /\ last' = [op |-> "newServer", dt |-> last.dt,
                server |-> newServer(last.dt)]
    /\ UNCHANGED <<env, base, transport, hdr, ctx, pc, handles, sent>>

NextRegister == NewServer

SpecRegister == InitRegister /\ [][NextRegister]_vars

\* The category is one of the comma-separated names of the flag string.
InEnabledList(flag, category) ==
    \E n \in 1..Len(flag) :
        /\ flag[n] = category
        /\ n = 1 \/ flag[n - 1] = Comma
        /\ n = Len(flag) \/ flag[n + 1] = Comma

\* How many times the category's registration function was called.
Registrations(server, category) ==
    Cardinality({ n \in 1..Len(server) : server[n] = category })

\* C20: on a new server a category's registration function has been called
\* once when the category is in the --enabled-tools list and its disable
\* flag is false, and not at all otherwise.
C20_RegisteredIffEnabled ==
    last.op = "newServer" =>
        \A category \in CategoryNames :
            Registrations(last.server, category) =
                IF /\ InEnabledList(last.dt.enabledTools, category)
                   /\ category \notin last.dt.disabled
                THEN 1 ELSE 0

\* A server built from --enabled-tools=search,loki --disable-loki: search
\* is registered, loki (disabled) and admin (not enabled) are not.
C20_Witness ==
    /\ last.op = "newServer"
    /\ last.dt.enabledTools = <<"search", Comma, "loki">>
    /\ last.dt.disabled = {"loki"}
    /\ last.server = <<"search">>

----------------------------------------------------------------------------
(* Cancellation: the context each upstream call of a tool is issued with.  *)
(* The calls through the Grafana OpenAPI client that are given no params    *)
(* (GetDashboardByUID(uid), GetDataSourceByUID(uid), GetAlertRule(uid))     *)
(* carry no context of the caller; the calls built with                     *)
(* http.NewRequestWithContext(ctx, ...) or params.WithContext(ctx) carry it.*)

\* The upstream calls of a tool in the order it issues them, each with the
\* context it is issued with.
UpstreamCalls(op) ==
    CASE op = "getDashboardByUID" ->
            <<[client |-> "grafana-api", ctx |-> "background"]>>
      [] op = "getAlertRuleByUID" ->
            <<[client |-> "grafana-api", ctx |-> "background"]>>
      [] op = "listContactPoints" ->
            <<[client |-> "grafana-api", ctx |-> "caller"]>>
      [] op = "listAlertRules" ->
            <<[client |-> "alerting", ctx |-> "caller"]>>
      [] op = "queryLokiLogs" ->
            <<[client |-> "grafana-api", ctx |-> "background"],
              [client |-> "loki", ctx |-> "caller"]>>
      [] op = "fetchPyroscopeProfile" ->
            <<[client |-> "grafana-api", ctx |-> "background"],
              [client |-> "pyroscope", ctx |-> "caller"]>>
      [] op = "getAssertions" ->
            <<[client |-> "asserts", ctx |-> "caller"]>>
      [] op = "updateDashboard" ->
            <<[client |-> "grafana-api", ctx |-> "background"]>>
      [] op = "GetDashboardPanelQueriesTool" ->
            <<[client |-> "grafana-api", ctx |-> "background"]>>
      [] op = "getDatasourceByUID" ->
            <<[client |-> "grafana-api", ctx |-> "background"]>>
      [] op = "listDatasources" ->
            <<[client |-> "grafana-api", ctx |-> "background"]>>
      [] op = "searchDashboards" ->
            <<[client |-> "grafana-api", ctx |-> "caller"]>>

CancellableTools ==
    {"getDashboardByUID", "getAlertRuleByUID", "listContactPoints",
     "listAlertRules", "queryLokiLogs", "fetchPyroscopeProfile",
     "getAssertions", "updateDashboard", "GetDashboardPanelQueriesTool",
     "getDatasourceByUID", "listDatasources", "searchDashboards"}

\* An upstream call as issued: a call on a cancelled context fails at once.
Issue(call, cancelled) ==
    [client |-> call.client, ctx |-> call.ctx,
     state |-> IF call.ctx = "caller" /\ cancelled
               THEN "cancelled" ELSE "pending"]

InitCancel ==
    /\ IdleComposer
    /\ handles = <<>>
    /\ last = NoCall
    /\ sent = NoRequest

CancelFrame == UNCHANGED <<env, base, transport, hdr, ctx, pc, handles>>

\* A tool is called: it issues its first upstream call.
InvokeTool ==
    \E op \in CancellableTools, cfg \in ParamConfigs :
        /\ IF last.op = "none" THEN TRUE ELSE ~last.running
        /\ last' = [op |-> op, cfg |-> cfg, running |-> TRUE,
                    cancelled |-> FALSE, err |-> ""]
        /\ sent' = <<Issue(UpstreamCalls(op)[1], FALSE)>>
        /\ CancelFrame

\* The pending call is answered: on an error the tool returns it, on a
\* success it issues its next call or returns.
UpstreamAnswers ==
    \E answer \in {"ok", "error"} :
        /\ last.op \in CancellableTools
        /\ last.running
        /\ sent[Len(sent)].state = "pending"
        /\ LET done == [sent EXCEPT ![Len(sent)].state = answer]
               more == Len(sent) < Len(UpstreamCalls(last.op))
               next == Issue(UpstreamCalls(last.op)[Len(sent) + 1],
                             last.cancelled)
           IN  IF answer = "error"
               THEN /\ sent' = done
                    /\ last' = [last EXCEPT !.running = FALSE,
                                            !.err = "upstream error"]
               ELSE IF ~more
               THEN /\ sent' = done
                    /\ last' = [last EXCEPT !.running = FALSE]
               ELSE /\ sent' = Append(done, next)
                    /\ last' = IF next.state = "cancelled"
                               THEN [last EXCEPT !.running = FALSE,
                                                 !.err = "context canceled"]
                               ELSE last
        /\ CancelFrame

\* The caller cancels: the pending calls issued with its context are
\* cancelled and the tool returns their error; the others stay pending.
CallerCancels ==
    /\ last.op \in CancellableTools
    /\ last.running
    /\ ~last.cancelled
    /\ sent' = [n \in 1..Len(sent) |->
                    IF sent[n].state = "pending" /\ sent[n].ctx = "caller"
                    THEN [sent[n] EXCEPT !.state = "cancelled"]
                    ELSE sent[n]]
    /\ last' = IF \E n \in 1..Len(sent) :
                    sent[n].state = "pending" /\ sent[n].ctx = "caller"
               THEN [last EXCEPT !.cancelled = TRUE, !.running = FALSE,
                                 !.err = "context canceled"]
               ELSE [last EXCEPT !.cancelled = TRUE]
    /\ CancelFrame

NextCancel ==
    \/ InvokeTool
    \/ UpstreamAnswers
    \/ CallerCancels

SpecCancel == InitCancel /\ [][NextCancel]_vars

\* C21: once the caller of a tool has cancelled, no upstream call of that
\* invocation is still pending.
C21_CancellationReachesEveryCall ==
    (last.op \in CancellableTools /\ last.cancelled) =>
        \A n \in 1..Len(sent) : sent[n].state # "pending"

----------------------------------------------------------------------------
(* HTTPTransport on transports as objects: handles is the heap of          *)
(* *http.Transport objects, a transport is named by its index, 0 is nil.    *)

\* The base transports callers hand in: http.DefaultTransport, and one with
\* TLS settings and a proxy of its own.
BaseTransports ==
    { DefaultTransport,
      [nil |-> FALSE, Proxy |-> "corp-proxy",
       TLSClientConfig |-> [nil |-> FALSE, InsecureSkipVerify |-> FALSE,
                            Certificates |-> <<>>, RootCAs |-> "ca.pem"]] }

\* (*http.Transport).Clone: a new object with the fields of the old one.
Clone(heap, b) == Append(heap, heap[b])

\* An HTTPTransport that sets the TLS config on the transport it is given.
HTTPTransportInPlace(heap, b, tc) ==
    IF ~tc.present
    THEN [heap |-> heap, transport |-> b, err |-> ""]
    ELSE IF CreateTLSConfig(tc).err # ""
    THEN [heap |-> heap, transport |-> 0, err |-> CreateTLSConfig(tc).err]
    ELSE [heap |-> [heap EXCEPT ![b].TLSClientConfig = CreateTLSConfig(tc).cfg],
          transport |-> b, err |-> ""]

\* (*TLSConfig).HTTPTransport on the heap: [heap, transport, err]. The clone
\* of a failed call is dropped with the call.
HTTPTransportOnHeap(heap, b, tc) ==
    LET cloned == Clone(heap, b)
        t == Len(cloned)
    IN  IF ~tc.present
        THEN [heap |-> cloned, transport |-> t, err |-> ""]
        ELSE IF CreateTLSConfig(tc).err # ""
        THEN [heap |-> heap, transport |-> 0, err |-> CreateTLSConfig(tc).err]
        ELSE [heap |-> [cloned EXCEPT
                            ![t].TLSClientConfig = CreateTLSConfig(tc).cfg],
              transport |-> t, err |-> ""]

InitTransport ==
    /\ IdleComposer
    /\ \E t \in BaseTransports : handles = <<t>>
    /\ last = NoCall
    /\ sent = NoRequest

\* A caller calls tc.HTTPTransport on a transport it holds; last keeps the
\* heap as it was before the call.
CallHTTPTransportOnHeap ==
    /\ Len(handles) < MaxHandles
    /\ \E b \in 1..Len(handles), tc \in TLSInputs :
        LET r == HTTPTransportOnHeap(handles, b, tc)
        IN  /\ handles' = r.heap
            /\ last' = [op |-> "HTTPTransportOnHeap", tc |-> tc,
                        base |-> b, before |-> handles,
                        transport |-> r.transport, err |-> r.err]
    /\ UNCHANGED <<env, base, transport, hdr, ctx, pc, sent>>

NextTransport == CallHTTPTransportOnHeap

SpecTransport == InitTransport /\ [][NextTransport]_vars

\* C22: HTTPTransport leaves every transport that existed before the call
\* as it was; without an error it returns a new transport, equal to the base
\* one for a nil TLSConfig and differing from it in the TLS client config
\* alone for a present one; with an error it returns no transport.
C22_BaseTransportNotMutated ==
    last.op = "HTTPTransportOnHeap" =>
        /\ \A i \in 1..Len(last.before) : handles[i] = last.before[i]
        /\ last.err # "" => last.transport = 0
        /\ last.err = "" =>
            /\ last.transport \in 1..Len(handles)
            /\ last.transport \notin 1..Len(last.before)
            /\ [handles[last.transport] EXCEPT
                    !.TLSClientConfig =
                        last.before[last.base].TLSClientConfig]
                = last.before[last.base]
            /\ ~last.tc.present
                => handles[last.transport] = last.before[last.base]
            /\ last.tc.present
                => handles[last.transport].TLSClientConfig
                        = CreateTLSConfig(last.tc).cfg
        /\ (last.tc.present /\ CreateTLSConfig(last.tc).err # "")
            => last.err # ""

\* A skip-verify transport made from a base transport with TLS settings of
\* its own, which it keeps.
C22_Witness ==
    /\ last.op = "HTTPTransportOnHeap"
    /\ last.tc.present /\ last.tc.SkipVerify
    /\ last.err = ""
    /\ last.before[last.base].TLSClientConfig.RootCAs = "ca.pem"
    /\ handles[last.transport].TLSClientConfig.InsecureSkipVerify
    /\ handles[last.transport].TLSClientConfig.RootCAs = ""
    /\ handles[last.base].TLSClientConfig.RootCAs = "ca.pem"

----------------------------------------------------------------------------
(* The client factories on a context whose config names no URL: the        *)
(* zero-value config of a context without one, or a config with URL "".     *)

\* The configs of the contexts: with and without a URL, a key, tokens and a
\* skip-verify override.
FactoryConfigs ==
    { [cfg EXCEPT !.URL = u] :
        cfg \in ToolConfigs,
        u \in {<<>>, <<"http://a">>, <<"http://b", Slash, "grafana", Slash>>} }

\* A context with a Grafana client and no config, as a caller of
\* WithGrafanaClient alone makes, and the contexts with a config as well.
FactoryContexts ==
    { WithGrafanaClient(Background,
        NewGrafanaClient(Background, <<>>, "").client) }
    \cup { ToolContext(cfg) : cfg \in FactoryConfigs }

InitFactory ==
    /\ IdleComposer
    /\ handles = <<>>
    /\ last = NoCall
    /\ sent = NoRequest

\* NewGrafanaClient(ctx, cfg.URL, cfg.APIKey) for the context's config.
FactoryGrafanaClient ==
    \E c \in FactoryContexts :
        LET cfg == GrafanaConfigFromContext(c)
            r == NewGrafanaClient(c, cfg.URL, cfg.APIKey)
        IN  /\ last' = [op |-> "NewGrafanaClient", cfg |-> cfg,
                        err |-> r.panicked,
                        target |-> IF r.panicked # "" THEN <<>>
                                   ELSE <<r.client.Schemes[1], r.client.Host>>
                                            \o r.client.BasePath]
            /\ sent' = <<>>
            /\ ToolFrame

FactoryLokiClient ==
    \E c \in FactoryContexts, found \in BOOLEAN :
        LET cl == newLokiClient(c, found)
        IN  /\ last' = [op |-> "newLokiClient",
                        cfg |-> GrafanaConfigFromContext(c),
                        err |-> cl.err, target |-> cl.baseURL]
            /\ sent' = cl.requests
            /\ ToolFrame

FactoryPyroscopeClient ==
    \E c \in FactoryContexts, found \in BOOLEAN :
        LET cl == newPyroscopeClient(c, found)
        IN  /\ last' = [op |-> "newPyroscopeClient",
                        cfg |-> GrafanaConfigFromContext(c),
                        err |-> cl.err, target |-> cl.baseURL]
            /\ sent' = cl.requests
            /\ ToolFrame

NextFactory ==
    \/ FactoryGrafanaClient
    \/ FactoryLokiClient
    \/ FactoryPyroscopeClient

SpecFactory == InitFactory /\ [][NextFactory]_vars

\* C24: a client factory that returns a client for a config with an empty
\* URL has built it for http://localhost:3000: the Grafana client for that
\* host with base path /api, the datasource clients for the proxy path
\* under that URL.
C24_EmptyURLTargetsDefault ==
    (/\ last.op \in {"NewGrafanaClient", "newLokiClient",
                     "newPyroscopeClient"}
     /\ last.cfg.URL = <<>>
     /\ last.err = "") =>
        IF last.op = "NewGrafanaClient"
        THEN last.target = <<"http", "localhost:3000", Slash, "api">>
        ELSE last.target = defaultGrafanaURL \o <<Slash, ProxyPath>>

----------------------------------------------------------------------------
(* Deriving contexts: ExtractGrafanaInfoFromEnv,                           *)
(* ExtractGrafanaInfoFromHeaders and WithOnBehalfOfAuth on contexts that   *)
(* already carry a config                                                  *)

\* Number of contexts derived in the derivation specification.
MaxDerived == 3

\* Configs a context carries before an extractor runs: every field set, and
\* one with a client certificate and no tokens.
IncomingConfigs ==
    { [Debug |-> TRUE, URL |-> <<"http://b">>, APIKey |-> "key1",
       AccessToken |-> "stale-access", IDToken |-> "stale-id",
       TLSConfig |-> [NoTLS EXCEPT !.present = TRUE, !.SkipVerify = TRUE]],
      [ZeroConfig EXCEPT !.TLSConfig =
            [NoTLS EXCEPT !.present = TRUE, !.CertFile = "client.pem",
                          !.KeyFile = "client.key"]] }

DeriveEnvs ==
    { [url |-> <<>>, key |-> ""],
      [url |-> <<"http://a", Slash>>, key |-> "key2"] }

DeriveHeaders ==
    { NoHeaders,
      [url |-> <<"http://b", Slash, "grafana", Slash>>, key |-> "key1"],
      [url |-> <<>>, key |-> "key1"] }

InitDerive ==
    /\ env \in DeriveEnvs
    /\ base = ZeroConfig
    /\ transport = <<>>
    /\ hdr = <<>>
    /\ ctx = <<>>
    /\ pc = <<>>
    /\ handles = <<>>
    /\ last = NoCall
    /\ sent = NoRequest

\* The caller keeps the returned context next to the one it was derived
\* from; cfg is what the new context resolved to when it was made.
Derived(p, by, child) ==
    /\ handles' = Append(handles,
            [c |-> child, parent |-> p, by |-> by,
             cfg |-> GrafanaConfigFromContext(child), attached |-> TRUE])
    /\ last' = [op |-> by, parent |-> p]
    /\ UNCHANGED <<env, base, transport, hdr, ctx, pc, sent>>

DeriveWithGrafanaConfig ==
    /\ Len(handles) < MaxDerived
    /\ \E p \in 0..Len(handles), config \in IncomingConfigs :
          Derived(p, "WithGrafanaConfig",
                  WithGrafanaConfig(ParentCtx(p), config))

DeriveInfoFromEnv ==
    /\ Len(handles) < MaxDerived
    /\ \E p \in 0..Len(handles) :
          LET r == ExtractGrafanaInfoFromEnv(ParentCtx(p))
          IN  /\ r.panicked = ""
              /\ Derived(p, "ExtractGrafanaInfoFromEnv", r.ctx)

DeriveInfoFromHeaders ==
    /\ Len(handles) < MaxDerived
    /\ \E p \in 0..Len(handles), req \in DeriveHeaders :
          LET r == ExtractGrafanaInfoFromHeaders(ParentCtx(p), req)
          IN  /\ r.panicked = ""
              /\ Derived(p, "ExtractGrafanaInfoFromHeaders", r.ctx)

DeriveOnBehalfOfAuth ==
    /\ Len(handles) < MaxDerived
    /\ \E p \in 0..Len(handles), at \in TokenValues, id \in IDTokenValues :
          LET r == WithOnBehalfOfAuth(ParentCtx(p), at, id)
          IN  IF r.nil
              THEN /\ last' = [op |-> "WithOnBehalfOfAuth", parent |-> p]
                   /\ UNCHANGED <<env, base, transport, hdr, ctx, pc,
                                  handles, sent>>
              ELSE Derived(p, "WithOnBehalfOfAuth", r.ctx)

NextDerive ==
    \/ DeriveWithGrafanaConfig
    \/ DeriveInfoFromEnv
    \/ DeriveInfoFromHeaders
    \/ DeriveOnBehalfOfAuth

SpecDerive == InitDerive /\ [][NextDerive]_vars

\* C26: a context made by ExtractGrafanaInfoFromEnv or
\* ExtractGrafanaInfoFromHeaders resolves to the config of the context it
\* was derived from with at most URL and APIKey changed; one made by
\* WithOnBehalfOfAuth to that config with at most AccessToken and IDToken
\* changed; and every context keeps resolving to the config it resolved to
\* when it was made, whatever was derived from it since.
C26_OnlyNamedFieldsChange ==
    \A i \in 1..Len(handles) :
        LET h == handles[i]
            now == GrafanaConfigFromContext(h.c)
            was == GrafanaConfigFromContext(ParentCtx(h.parent))
        IN  /\ now = h.cfg
            /\ h.by \in {"ExtractGrafanaInfoFromEnv",
                         "ExtractGrafanaInfoFromHeaders"}
                => now = [was EXCEPT !.URL = now.URL, !.APIKey = now.APIKey]
            /\ h.by = "WithOnBehalfOfAuth"
                => now = [was EXCEPT !.AccessToken = now.AccessToken,
                                     !.IDToken = now.IDToken]

\* The environment extractor ran on a context whose config has debug, TLS
\* settings and both tokens set, and changed its URL and API key; the
\* token injector then ran on the result.
C26_Witness ==
    \E i, j \in 1..Len(handles) :
        /\ handles[i].by = "ExtractGrafanaInfoFromEnv"
        /\ handles[i].parent # 0
        /\ ParentCfg(handles[i].parent).Debug
        /\ ParentCfg(handles[i].parent).TLSConfig.present
        /\ ParentCfg(handles[i].parent).IDToken = "stale-id"
        /\ handles[i].cfg.URL = <<"http://a">>
        /\ handles[i].cfg.APIKey = "key2"
        /\ handles[j].parent = i
        /\ handles[j].by = "WithOnBehalfOfAuth"
        /\ handles[j].cfg.IDToken = "id"

----------------------------------------------------------------------------
(* Pagination of alert rules: applyPagination                              *)

\* Longest rule list paginated.
MaxRules == 3

\* Go's int on the 64-bit platforms the server is built for: eight bytes,
\* two's complement, arithmetic that wraps around.  An int is the sequence
\* of its bytes, the least significant first.
IntBytes == 8
Byte == 256

\* The int of a number below 2^24.
ToInt(x) ==
    [i \in 1..IntBytes |->
        CASE i = 1 -> x % Byte
          [] i = 2 -> (x \div Byte) % Byte
          [] i = 3 -> (x \div (Byte * Byte)) % Byte
          [] OTHER -> 0]

IsNegative(w) == w[IntBytes] >= Byte \div 2

\* An int from 0 to 2^15 - 1, and its number.
IsSmall(w) == w[2] < Byte \div 2 /\ \A i \in 3..IntBytes : w[i] = 0
Number(w) == w[1] + Byte * w[2]

\* Column k of the long multiplication and of the addition, with the carry
\* from the columns below it.
RECURSIVE MulColumn(_, _, _)
MulColumn(a, b, k) ==
    LET sum == IF k = 1 THEN a[1] * b[1]
               ELSE LET S[i \in 0..k] ==
                            IF i = 0 THEN 0
                            ELSE S[i - 1] + a[i] * b[k + 1 - i]
                    IN  S[k] + MulColumn(a, b, k - 1) \div Byte
    IN  sum

RECURSIVE AddColumn(_, _, _)
AddColumn(a, b, k) ==
    a[k] + b[k] + IF k = 1 THEN 0 ELSE AddColumn(a, b, k - 1) \div Byte

\* a * b, a + b and a - 1 (for a > 0) as Go computes them on ints: the
\* low eight bytes of the result.
MulInt(a, b) == [k \in 1..IntBytes |-> MulColumn(a, b, k) % Byte]
AddInt(a, b) == [k \in 1..IntBytes |-> AddColumn(a, b, k) % Byte]
MinusOne == [k \in 1..IntBytes |-> Byte - 1]
DecInt(a) == AddInt(a, MinusOne)

\* a >= n and a > n for an int a and a length n.
AtLeast(a, n) ==
    IF IsNegative(a) THEN FALSE
    ELSE IF IsSmall(a) THEN Number(a) >= n ELSE TRUE
MoreThan(a, n) == AtLeast(a, n + 1)

DefaultListAlertRulesLimit == ToInt(100)

\* The rules the API returned, in its order.
RuleLists == { [i \in 1..n |-> i] : n \in 0..MaxRules }

\* items[lo:hi] with hi a length: a panic when the bounds are out of range.
SliceRules(items, lo, hi) ==
    IF ~IsNegative(lo) /\ IsSmall(lo) /\ Number(lo) <= hi /\ hi <= Len(items)
    THEN [panicked |-> FALSE, items |-> SubSeq(items, Number(lo) + 1, hi)]
    ELSE [panicked |-> TRUE, items |-> <<>>]

\* applyPagination.  Where items[start:end] is reached, end is not above
\* len(items); a negative end is below every start the slice accepts.
applyPagination(items, limit0, page0) ==
    LET limit == IF limit0 = ToInt(0) THEN DefaultListAlertRulesLimit
                 ELSE limit0
        page == IF page0 = ToInt(0) THEN ToInt(1) ELSE page0
        start == MulInt(DecInt(page), limit)
        end == AddInt(start, limit)
    IN  IF AtLeast(start, Len(items))
        THEN [panicked |-> FALSE, items |-> <<>>]
        ELSE IF MoreThan(end, Len(items))
        THEN SliceRules(items, start, Len(items))
        ELSE IF IsNegative(end)
        THEN [panicked |-> TRUE, items |-> <<>>]
        ELSE SliceRules(items, start, Number(end))

\* Limits and pages a caller sends: none of them negative (validate has
\* passed), from 0 to the largest int.
PaginationInts ==
    { ToInt(x) : x \in {0, 1, 2, 3, 4, 100, 101} }
        \cup { [i \in 1..IntBytes |-> IF i = IntBytes THEN 64 ELSE 0],
               [i \in 1..IntBytes |->
                    IF i = IntBytes THEN 64 ELSE IF i = 1 THEN 1 ELSE 0],
               [i \in 1..IntBytes |->
                    IF i = IntBytes THEN 32 ELSE IF i = 1 THEN 1 ELSE 0],
               [i \in 1..IntBytes |->
                    IF i = IntBytes THEN Byte \div 2 - 1 ELSE Byte - 1] }

\* listAlertRules has validated limit and page and holds the rules it
\* fetched.
InitPagination ==
    /\ IdleComposer
    /\ handles = <<>>
    /\ \E items \in RuleLists, limit \in PaginationInts,
          page \in PaginationInts :
          last = [op |-> "listAlertRules", items |-> items,
                  limit |-> limit, page |-> page]
    /\ sent = NoRequest

\* alertRules, err = applyPagination(alertRules, args.Limit, args.Page)
CallApplyPagination ==
    /\ last.op = "listAlertRules"
    /\ last' = [op |-> "applyPagination", items |-> last.items,
                limit |-> last.limit, page |-> last.page,
                res |-> applyPagination(last.items, last.limit, last.page)]
    /\ UNCHANGED <<env, base, transport, hdr, ctx, pc, handles, sent>>

NextPagination == CallApplyPagination

SpecPagination == InitPagination /\ [][NextPagination]_vars

Min(a, b) == IF a < b THEN a ELSE b

\* The elements of items at the zero-based indices from (P-1)*L up to
\* min(P*L, n), for a limit L >= 1 and a page P >= 1 of any size: with
\* P > 1, a limit or a page beyond 2^15 puts the window past the list.
Window(items, L, P) ==
    LET n == Len(items)
        before == DecInt(P)
    IN  IF before = ToInt(0)
        THEN IF IsSmall(L) THEN SubSeq(items, 1, Min(Number(L), n))
             ELSE items
        ELSE IF IsSmall(L) /\ IsSmall(before)
        THEN SubSeq(items, Number(before) * Number(L) + 1,
                    Min((Number(before) + 1) * Number(L), n))
        ELSE <<>>

\* C27: applyPagination returns exactly the elements at the zero-based
\* indices from (P-1)*L up to min(P*L, n), in order, where L is the limit
\* (100 for 0) and P the page (1 for 0): nothing when (P-1)*L >= n, and
\* never more than L elements.
C27_PageIsExactWindow ==
    last.op = "applyPagination" =>
        LET L == IF last.limit = ToInt(0) THEN ToInt(100) ELSE last.limit
            P == IF last.page = ToInt(0) THEN ToInt(1) ELSE last.page
        IN  /\ ~last.res.panicked
            /\ last.res.items = Window(last.items, L, P)
            /\ IsSmall(L) => Len(last.res.items) <= Number(L)

----------------------------------------------------------------------------
(* Users currently on call: getCurrentOnCallUsers                          *)

\* Longest OnCallNow list of a schedule.
MaxOnCallNow == 2

UserIDs == {"u1", "u2", "u3"}

RECURSIVE IDLists(_)
IDLists(n) ==
    IF n = 0 THEN {<<>>}
    ELSE IDLists(n - 1)
            \cup { Append(l, u) : l \in { k \in IDLists(n - 1) :
                                            Len(k) = n - 1 }, u \in UserIDs }

\* The aapi.User userService.GetUser answers with for an ID.
UserOf(id) == [ID |-> id]

\* The loop over schedule.OnCallNow: a user whose lookup fails is printed
\* and skipped.  [Users, printed]
RECURSIVE fetchOnCallUsers(_, _)
fetchOnCallUsers(ids, failing) ==
    IF ids = <<>> THEN [Users |-> <<>>, printed |-> <<>>]
    ELSE LET rest == fetchOnCallUsers(Tail(ids), failing)
         IN  IF Head(ids) \in failing
             THEN [Users |-> rest.Users,
                   printed |-> <<Head(ids)>> \o rest.printed]
             ELSE [Users |-> <<UserOf(Head(ids))>> \o rest.Users,
                   printed |-> rest.printed]

\* getCurrentOnCallUsers: [err, nil, Users, printed].  scheduleService and
\* userService say whether the service could be made from the context,
\* schedule whether GetSchedule answered.
getCurrentOnCallUsers(scheduleService, schedule, onCallNow, userService, failing) ==
    IF ~scheduleService
    THEN [err |-> "getting OnCall schedule service", nil |-> TRUE,
          Users |-> <<>>, printed |-> <<>>]
    ELSE IF ~schedule
    THEN [err |-> "getting schedule", nil |-> TRUE,
          Users |-> <<>>, printed |-> <<>>]
    ELSE IF Len(onCallNow) = 0
    THEN [err |-> "", nil |-> FALSE, Users |-> <<>>, printed |-> <<>>]
    ELSE IF ~userService
    THEN [err |-> "getting OnCall user service", nil |-> TRUE,
          Users |-> <<>>, printed |-> <<>>]
    ELSE LET loop == fetchOnCallUsers(onCallNow, failing)
         IN  [err |-> "", nil |-> FALSE, Users |-> loop.Users,
              printed |-> loop.printed]

\* A schedule with its OnCallNow list, and the users whose lookup fails.
InitOnCallUsers ==
    /\ IdleComposer
    /\ handles = <<>>
    /\ \E onCallNow \in IDLists(MaxOnCallNow), failing \in SUBSET UserIDs,
          scheduleService \in BOOLEAN, schedule \in BOOLEAN,
          userService \in BOOLEAN :
          last = [op |-> "none", OnCallNow |-> onCallNow,
                  failing |-> failing, scheduleService |-> scheduleService,
                  schedule |-> schedule, userService |-> userService]
    /\ sent = NoRequest

CallGetCurrentOnCallUsers ==
    /\ last.op = "none"
    /\ last' = [op |-> "getCurrentOnCallUsers", OnCallNow |-> last.OnCallNow,
                failing |-> last.failing,
                res |-> getCurrentOnCallUsers(last.scheduleService,
                            last.schedule, last.OnCallNow, last.userService,
                            last.failing)]
    /\ UNCHANGED <<env, base, transport, hdr, ctx, pc, handles, sent>>

NextOnCallUsers == CallGetCurrentOnCallUsers

SpecOnCallUsers == InitOnCallUsers /\ [][NextOnCallUsers]_vars

\* C29: when getCurrentOnCallUsers returns without error, Users holds one
\* user for each ID of the schedule's OnCallNow list, in that order; a call
\* in which the lookup of an on-call user failed returns an error.
C29_EveryOnCallUserReturned ==
    (last.op = "getCurrentOnCallUsers" /\ last.res.err = "") =>
        /\ last.res.Users =
                [i \in 1..Len(last.OnCallNow) |-> UserOf(last.OnCallNow[i])]
        /\ last.res.printed = <<>>

----------------------------------------------------------------------------
(* The jsonschema linter: FindUnescapedCommas with FixMode.  A text is the  *)
(* sequence of its characters; the fixed parts of a struct tag are one      *)
(* token each.                                                              *)

\* Longest description of a tag, in characters.
MaxDescLen == 4

\* Runs of the linter over the directory.
MaxRuns == 2

Backslash == "\\"

\* The characters of a description: a letter, a comma, a backslash.
DescChars == {"x", Comma, Backslash}

RECURSIVE TextsOfLen(_)
TextsOfLen(n) ==
    IF n = 0 THEN {<<>>}
    ELSE { Append(t, ch) : t \in TextsOfLen(n - 1), ch \in DescChars }

Descriptions == UNION { TextsOfLen(n) : n \in 0..MaxDescLen }

TagOpen == "json:"
TagMiddle == "jsonschema:description="
TagClose == "end of tag"

\* The json names of the fields: a name, and a name with an option.
JSONNames == { <<"x">>, <<"x", Comma, "omitempty">> }

\* field.Tag.Value: the tag as it stands in the file.
TagText(name, desc) ==
    <<TagOpen>> \o name \o <<TagMiddle>> \o desc \o <<TagClose>>

\* The description of a tag's text.
DescriptionOf(tag) ==
    LET mid == CHOOSE k \in 1..Len(tag) : tag[k] = TagMiddle
    IN  SubSeq(tag, mid + 1, Len(tag) - 1)

\* strings.Index on texts: the first position of sub in s, 0 for none.
IndexOf(s, sub) ==
    LET at == { k \in 1..(Len(s) - Len(sub) + 1) :
                    SubSeq(s, k, k + Len(sub) - 1) = sub }
    IN  IF at = {} THEN 0 ELSE CHOOSE k \in at : \A j \in at : k <= j

\* strings.Replace(s, old, new, 1)
ReplaceFirst(s, old, new) ==
    LET k == IndexOf(s, old)
    IN  IF k = 0 THEN s
        ELSE SubSeq(s, 1, k - 1) \o new \o SubSeq(s, k + Len(old), Len(s))

\* tagPattern.FindStringSubmatch(tag)[2], <<>> for no match: description=
\* followed by the shortest text that ends in a character other than a
\* backslash and a comma; what follows has no quote up to the closing one.
tagPattern(tag) ==
    LET d == DescriptionOf(tag)
        ends == { i \in 2..Len(d) : d[i] = Comma /\ d[i - 1] # Backslash }
    IN  IF ends = {} THEN <<>>
        ELSE SubSeq(d, 1, CHOOSE i \in ends : \A j \in ends : i <= j)

\* escapeUnescapedCommas: regexp ([^\\]), replaced by $1\\, from left to
\* right, the matches not overlapping.
RECURSIVE escapeUnescapedCommas(_)
escapeUnescapedCommas(desc) ==
    IF Len(desc) < 2 THEN desc
    ELSE IF desc[1] # Backslash /\ desc[2] = Comma
    THEN <<desc[1], Backslash, Backslash, Comma>>
            \o escapeUnescapedCommas(SubSeq(desc, 3, Len(desc)))
    ELSE <<desc[1]>> \o escapeUnescapedCommas(Tail(desc))

\* The FixedTag of a field's error.
FixedTag(tag) ==
    LET descWithUnescapedCommas == tagPattern(tag)
    IN  ReplaceFirst(tag, descWithUnescapedCommas,
                     escapeUnescapedCommas(descWithUnescapedCommas))

\* The errors of a file: the fields whose tag the pattern matches.
FileErrors(file) == { k \in 1..Len(file) : tagPattern(file[k]) # <<>> }

\* fixFile: every tag with an error replaced by its FixedTag.
fixFile(file) ==
    [k \in 1..Len(file) |->
        IF k \in FileErrors(file) THEN FixedTag(file[k]) ELSE file[k]]

\* The files of the directory: a struct with one tagged field, or with a
\* second field whose description has one unescaped comma.
LintFiles ==
    { <<TagText(n, d)>> : n \in JSONNames, d \in Descriptions }
        \cup { <<TagText(<<"x">>, d), TagText(<<"x">>, <<"x", "x", Comma>>)>> :
                d \in Descriptions }

InitLint ==
    /\ IdleComposer
    /\ handles = <<>>
    /\ \E file \in LintFiles :
          last = [op |-> "none", original |-> file, file |-> file,
                  run |-> 0, Errors |-> {}]
    /\ sent = NoRequest

\* FindUnescapedCommas with FixMode on the directory: the errors found and
\* the file rewritten.
FindUnescapedCommas ==
    /\ last.run < MaxRuns
    /\ last' = [op |-> "FindUnescapedCommas", original |-> last.original,
                file |-> fixFile(last.file), run |-> last.run + 1,
                Errors |-> FileErrors(last.file)]
    /\ UNCHANGED <<env, base, transport, hdr, ctx, pc, handles, sent>>

NextLint == FindUnescapedCommas

SpecLint == InitLint /\ [][NextLint]_vars

\* The commas of a description that no backslash stands before.
UnescapedCommas(d) ==
    { i \in 1..Len(d) : d[i] = Comma /\ (i = 1 \/ d[i - 1] # Backslash) }

\* C30: after a run of FindUnescapedCommas with FixMode no description of
\* the file has an unescaped comma, the linter finds no error in the file,
\* and a second run reports none.
C30_FixLeavesNoUnescapedComma ==
    last.run >= 1 =>
        /\ \A k \in 1..Len(last.file) :
                UnescapedCommas(DescriptionOf(last.file[k])) = {}
        /\ FileErrors(last.file) = {}
        /\ last.run >= 2 => last.Errors = {}

====
